---- MODULE Spec2Model ----
(***************************************************************************)
(* View-buffer synthesis and filter warm-up of the EDF/BDF viewer:         *)
(* UI_Mainwindow::setup_viewbuf (viewbuf.cpp), the Z-ratio filter          *)
(* (filt/z_ratio_filter.c) and the math functions (filt/math_func.c).      *)
(*                                                                         *)
(* Conventions.  Sequences are 1-based, so composition i of the code is    *)
(* signalcomp[i + 1] here and buffer byte b is viewbuf[b + 1]; every       *)
(* other index (records, samples, byte offsets) keeps the code's 0-based   *)
(* value.  Times are ticks of 1/10,000,000 s.  Values the code keeps in a  *)
(* double are kept exactly: pre_time as a fraction <<num, den>> of         *)
(* seconds, the proportional sample counts as the floor of the exact       *)
(* quotient, sample values as integers.                                    *)
(***************************************************************************)
EXTENDS Integers, Sequences, FiniteSets, TLC

VARIABLES
  signalcomp,      \* the active compositions, in list order (signalcomp[], signalcomps)
  viewtime,        \* edfheaderlist[f]->viewtime
  prefiltertime,   \* edfheaderlist[f]->prefiltertime
  pagetime,        \* pagetime
  viewbuf,         \* the shared view buffer (<<>> is NULL)
  call,            \* what the last setup_viewbuf call did (its reads, its warm-up plan, how it ended)
  filepos,         \* the file position of edfheaderlist[f]->file_hdl
  msgbox,          \* the setup_viewbuf calls blocked in QMessageBox::critical, innermost last
  zf,              \* Z-ratio filter of the filter-level specification
  zaux,            \* bookkeeping of the filter-level specification
  dec,             \* the sample last decoded in the decoding-level specification
  mf               \* math function of the math-function specification, and its bookkeeping

vars == <<signalcomp, viewtime, prefiltertime, pagetime, viewbuf, call, filepos, msgbox, zf, zaux, dec, mf>>

-----------------------------------------------------------------------------
(* Constants of the program *)

ZRATIO_EPOCH_LEN == 2
ZR_TIME_FIXP_SCALING == 10000000
TIME_FIXP_SCALING == ZR_TIME_FIXP_SCALING
SIZEOF_DOUBLE == 8

MATH_FUNC_NONE == 0
MATH_FUNC_SQUARE == 1
MATH_FUNC_SQRT == 2
MATH_FUNC_ABS == 3
MATH_FUNC_PK_HOLD == 4
MATH_MAX_FUNCS == 5

-----------------------------------------------------------------------------
(* Bounds of the model *)

MaxComps == 2          \* compositions in the list
Datarecords1 == 50     \* records of recording 1 (5 s)
Datarecords2 == 4      \* records of recording 2 (12 s)
MaxSamples == 260      \* samples fed to the filter of the filter-level specification
UINT_MAX == 39         \* the word width is scaled down with the recordings: the memory limit is in reach
MaxDepth == 2          \* setup_viewbuf calls that are blocked in a message box at one time

-----------------------------------------------------------------------------
(* C integer arithmetic: / truncates towards zero, % has the sign of the dividend *)

CDiv(a, b) == IF a >= 0 THEN a \div b ELSE -((-a) \div b)
CMod(a, b) == IF a >= 0 THEN a % b ELSE -((-a) % b)

\* (int)(((double)a / (double)b) * (double)c) for a >= 0, b > 0, c >= 0
DblScale(a, b, c) == (a * c) \div b

Min(a, b) == IF a < b THEN a ELSE b
Max(a, b) == IF a > b THEN a ELSE b

\* fractions of a second <<num, den>>, den > 0
FracLess(p, q) == p[1] * q[2] < q[1] * p[2]
FracMax(p, q) == IF FracLess(p, q) THEN q ELSE p
\* the conversion to ticks rounded up
FracTicks_Ceiling(p) == (p[1] * TIME_FIXP_SCALING + p[2] - 1) \div p[2]

\* (long long)(pre_time * ((double)TIME_FIXP_SCALING)) for pre_time >= 0
FracTicks(p) == (p[1] * TIME_FIXP_SCALING) \div p[2]

-----------------------------------------------------------------------------
(* The open recordings (edfheaderlist).  Recording 1: BDF, one signal of   *)
(* 10 samples per 0.1 s record (100 Hz).  Recording 2: EDF, records of     *)
(* 3 s, signal 1 with 3 and signal 2 with 6 samples per record.            *)

Files == {1, 2}

edfheaderlist ==
  <<[bdf |-> TRUE, edf |-> FALSE, long_data_record_duration |-> 1000000,
     datarecords |-> Datarecords1, hdrsize |-> 512, recordsize |-> 30,
     edfparam |-> <<[smp_per_record |-> 10, datrec_offset |-> 0, offset |-> 0, sf_f |-> 100]>>],
    [bdf |-> FALSE, edf |-> TRUE, long_data_record_duration |-> 30000000,
     datarecords |-> Datarecords2, hdrsize |-> 768, recordsize |-> 18,
     edfparam |-> <<[smp_per_record |-> 3, datrec_offset |-> 0, offset |-> 0, sf_f |-> 1],
                    [smp_per_record |-> 6, datrec_offset |-> 6, offset |-> 1, sf_f |-> 2]>>]>>

\* byte at offset off of the file of recording f; data bytes are never 0,
\* so a zero-filled byte differs from every byte read
FileByte(f, off) == 1 + ((off * 7 + f * 13 + (off \div 30) * 5) % 255)

FileSize(f) == edfheaderlist[f].hdrsize + edfheaderlist[f].datarecords * edfheaderlist[f].recordsize

-----------------------------------------------------------------------------
(* Z-ratio filter, filt/z_ratio_filter.c *)

\* the band-power ratio of a completed block: the code's FFT and band sums
\* are a function of the dftblocksize buffered samples and of nothing else;
\* kept here as a position-weighted sum, which like the FFT depends on every
\* sample of the block and on its place in the block
RECURSIVE BlockSum(_, _, _)
BlockSum(buf, lo, hi) ==
  IF hi < lo THEN 0
  ELSE IF hi = lo THEN (lo * (buf[lo] % 97)) % 1009
  ELSE LET mid == (lo + hi) \div 2
       IN (BlockSum(buf, lo, mid) + BlockSum(buf, mid + 1, hi)) % 1009
ZRatioOfBlock(buf, dftblocksize) == 1 + BlockSum(buf, 1, dftblocksize)

\* create_zratio_filter with the outcome of its allocations: nomem is the
\* ordinal of the allocation that returns NULL (0: none; 1: calloc of the
\* settings, 2: fft_inputbuf, 3: fft_inputbuf_bu, 4: fft_outputbuf,
\* 5: kiss_fftbuf, 6: kiss_fftr_alloc).  NULL is <<>>; a created filter is a
\* record; heap is what the call has allocated and not freed when it returns.
create_zratio_filter_mem(smp_per_record, long_data_record_duration, nomem) ==
  LET dftblocksize == (smp_per_record * (ZRATIO_EPOCH_LEN * ZR_TIME_FIXP_SCALING)) \div long_data_record_duration
      \* samplefreq = smp_per_record / (long_data_record_duration / ZR_TIME_FIXP_SCALING)
      freq_num == smp_per_record * ZR_TIME_FIXP_SCALING
      freq_den == long_data_record_duration
      null(allocated, freed) == [settings |-> <<>>, heap |-> allocated \ freed]
  IN IF nomem = 1 THEN null({}, {})
     ELSE IF dftblocksize < ZRATIO_EPOCH_LEN * 100 THEN null({"settings"}, {"settings"})
     ELSE IF freq_num < 100 * freq_den THEN null({"settings"}, {"settings"})
     ELSE IF freq_num > dftblocksize * freq_den              \* freqstep > 1.0
          THEN null({"settings"}, {"settings"})
     ELSE IF nomem = 2 THEN null({"settings"}, {"settings"})
     ELSE IF nomem = 3
          THEN null({"settings", "fft_inputbuf"}, {"fft_inputbuf", "settings"})
     ELSE IF nomem = 4
          THEN null({"settings", "fft_inputbuf", "fft_inputbuf_bu"},
                    {"fft_inputbuf", "fft_inputbuf_bu", "settings"})
     ELSE IF nomem = 5
          THEN null({"settings", "fft_inputbuf", "fft_inputbuf_bu", "fft_outputbuf"},
                    {"fft_inputbuf", "fft_inputbuf_bu", "fft_outputbuf", "settings"})
     ELSE \* line 123: the result of kiss_fftr_alloc is stored as it comes
          [settings |->
             <<[dftblocksize |-> dftblocksize,
                smpls_in_inputbuf |-> 0,
                zratio_value |-> 0,
                fft_inputbuf |-> [i \in 1..dftblocksize |-> 0],
                smpls_in_inputbuf_bu |-> 0,
                zratio_value_bu |-> 0,
                fft_inputbuf_bu |-> [i \in 1..dftblocksize |-> 0],
                cfg |-> nomem # 6]>>,
           heap |-> {"settings", "fft_inputbuf", "fft_inputbuf_bu", "fft_outputbuf", "kiss_fftbuf"}
                    \cup (IF nomem # 6 THEN {"cfg"} ELSE {})]

\* the filter of a call in which every allocation succeeds
create_zratio_filter(smp_per_record, long_data_record_duration) ==
  create_zratio_filter_mem(smp_per_record, long_data_record_duration, 0).settings

\* what free_zratio_filter leaves of the heap (free(NULL) does nothing)
free_zratio_filter(heap) ==
  heap \ {"fft_inputbuf", "fft_inputbuf_bu", "fft_outputbuf", "kiss_fftbuf", "cfg", "settings"}

\* run_zratio_filter with > for >= in the test of line 146
run_zratio_filter_Late(new_sample, settings) ==
  IF settings.smpls_in_inputbuf + 1 > settings.dftblocksize
  THEN [settings EXCEPT !.smpls_in_inputbuf = 0,
                        !.zratio_value = ZRatioOfBlock(settings.fft_inputbuf, settings.dftblocksize)]
  ELSE [settings EXCEPT !.smpls_in_inputbuf = settings.smpls_in_inputbuf + 1]

\* the filter after run_zratio_filter(new_sample, settings)
run_zratio_filter(new_sample, settings) ==
  IF settings.smpls_in_inputbuf + 1 >= settings.dftblocksize
  THEN [settings EXCEPT !.fft_inputbuf[settings.smpls_in_inputbuf + 1] = new_sample,
                        !.smpls_in_inputbuf = 0,
                        !.zratio_value =
                           ZRatioOfBlock([settings.fft_inputbuf EXCEPT ![settings.smpls_in_inputbuf + 1] = new_sample],
                                         settings.dftblocksize)]
  ELSE [settings EXCEPT !.fft_inputbuf[settings.smpls_in_inputbuf + 1] = new_sample,
                        !.smpls_in_inputbuf = settings.smpls_in_inputbuf + 1]

\* the value run_zratio_filter returns (bitvalue is 1)
zratio_output(settings) == settings.zratio_value

\* memcpy(dst, src, dftblocksize) copies dftblocksize bytes, that is the
\* first dftblocksize / sizeof(double) samples
CopyBytes(dst, src, nbytes) ==
  [i \in DOMAIN dst |-> IF i <= nbytes \div SIZEOF_DOUBLE THEN src[i] ELSE dst[i]]

zratio_filter_save_buf(settings) ==
  [settings EXCEPT !.smpls_in_inputbuf_bu = settings.smpls_in_inputbuf,
                   !.zratio_value_bu = settings.zratio_value,
                   !.fft_inputbuf_bu = CopyBytes(settings.fft_inputbuf_bu, settings.fft_inputbuf, settings.dftblocksize)]

zratio_filter_restore_buf(settings) ==
  [settings EXCEPT !.smpls_in_inputbuf = settings.smpls_in_inputbuf_bu,
                   !.zratio_value = settings.zratio_value_bu,
                   !.fft_inputbuf = CopyBytes(settings.fft_inputbuf, settings.fft_inputbuf_bu, settings.dftblocksize)]

reset_zratio_filter(settings) ==
  [settings EXCEPT !.smpls_in_inputbuf = 0, !.zratio_value = 0]

-----------------------------------------------------------------------------
(* Math functions, filt/math_func.c *)

create_math_func(func_f, pk_smpls) ==
  IF func_f < 0 \/ func_f >= MATH_MAX_FUNCS THEN <<>>
  ELSE IF func_f = MATH_FUNC_PK_HOLD /\ pk_smpls < 1 THEN <<>>
  ELSE <<[func |-> func_f,
          pk_hold_smpls_set |-> IF func_f = MATH_FUNC_PK_HOLD THEN pk_smpls ELSE 0,
          pk_hold_val |-> 0,
          pk_hold_smpl_cntr |-> 0]>>

\* integer square root, for MATH_FUNC_SQRT on the model's integer samples
RECURSIVE ISqrtFrom(_, _)
ISqrtFrom(v, r) == IF (r + 1) * (r + 1) > v THEN r ELSE ISqrtFrom(v, r + 1)

\* run_math_func whose peak hold never expires: the test of the counter in
\* line 126 is left out
run_math_func_NoExpiry(val, st) ==
  IF st.func = MATH_FUNC_PK_HOLD
  THEN IF val > st.pk_hold_val
       THEN <<val, [st EXCEPT !.pk_hold_val = val, !.pk_hold_smpl_cntr = 0]>>
       ELSE <<st.pk_hold_val, [st EXCEPT !.pk_hold_smpl_cntr = @ + 1]>>
  ELSE <<val, st>>

\* <<value returned, instance afterwards>> of run_math_func(val, st)
run_math_func(val, st) ==
  IF st.func = MATH_FUNC_SQUARE THEN <<IF val < 0 THEN -val * val ELSE val * val, st>>
  ELSE IF st.func = MATH_FUNC_SQRT THEN <<IF val < 0 THEN -ISqrtFrom(-val, 0) ELSE ISqrtFrom(val, 0), st>>
  ELSE IF st.func = MATH_FUNC_ABS THEN <<IF val < 0 THEN -val ELSE val, st>>
  ELSE IF st.func = MATH_FUNC_PK_HOLD THEN
    LET cntr == st.pk_hold_smpl_cntr + 1
    IN IF val > st.pk_hold_val \/ cntr >= st.pk_hold_smpls_set
       THEN <<val, [st EXCEPT !.pk_hold_val = val, !.pk_hold_smpl_cntr = 0]>>
       ELSE <<st.pk_hold_val, [st EXCEPT !.pk_hold_smpl_cntr = cntr]>>
  ELSE IF st.func = MATH_FUNC_NONE THEN <<val, st>>
  ELSE <<0, st>>

-----------------------------------------------------------------------------
(* The other filters of the chain.  Their code is run_spike_filter,        *)
(* first_order_filter, run_ravg_filter, the fidlib run functions,          *)
(* run_fir_filter, plif_*_run_subtract_filter and run_ecg_filter; each     *)
(* keeps a running state that the next output depends on.  The state is    *)
(* kept as one small number per instance.                                  *)

\* <<output, state afterwards>>
StageRun(x, st) == <<x + ((st + x) % 2), (st + x) % 2>>
WithSt(f, r) == <<r[1], [f EXCEPT !.st = r[2]]>>
WithBuf(f, r) == <<r[1], [f EXCEPT !.buf = r[2]]>>
WithOld(f, x, out) == <<out, [f EXCEPT !.old_input = x, !.old_output = out]>>

run_spike_filter(x, f) == WithSt(f, StageRun(x, f.st))
run_ravg_filter(x, f) == WithSt(f, StageRun(x, f.st))
run_fid_filter(x, f) == WithBuf(f, StageRun(x, f.buf))
run_fir_filter(x, f) == WithSt(f, StageRun(x, f.st))
plif_ecg_run_subtract_filter(x, f) == WithSt(f, StageRun(x, f.st))
plif_eeg_run_subtract_filter(x, f) == WithSt(f, StageRun(x, f.st))
run_ecg_filter(x, f) == WithSt(f, StageRun(x, f.st))
first_order_filter(x, f) == WithOld(f, x, (f.old_output + x - f.old_input) % 2)

reset_ravg_filter(f) == [f EXCEPT !.st = 0]
reset_ecg_filter(f) == [f EXCEPT !.st = 0]

-----------------------------------------------------------------------------
(* Compositions (struct signalcompblock).  An absent single filter is <<>>,*)
(* a present one <<instance>>; the counted kinds are sequences.            *)

CompDefaults ==
  [filenum |-> 1, edfsignal |-> <<1>>, factor |-> <<1>>,
   filter |-> <<>>, filterpreset_a |-> <<>>, filterpreset_b |-> <<>>,
   spike_filter |-> <<>>, plif_ecg_filter |-> <<>>, plif_ecg_filter_sav |-> <<>>,
   plif_eeg_filter |-> <<>>, plif_eeg_filter_sav |-> <<>>,
   ravg_filter |-> <<>>, fir_filter |-> <<>>, fidfilter |-> <<>>,
   ecg_filter |-> <<>>, zratio_filter |-> <<>>,
   math_func_before |-> <<>>, math_func_after |-> <<>>,
   records_in_viewbuf |-> 0, viewbufsize |-> 0, viewbufoffset |-> 0,
   samples_in_prefilterbuf |-> 0, prefilter_starttime |-> 0, prefilter_reset_sample |-> 0,
   samples_on_screen |-> 0, sample_start |-> 0, sample_stop |-> 0,
   sample_timeoffset |-> 0, sample_timeoffset_part |-> 0,
   \* the stages that the filter loop applied to its last sample, in order
   stages |-> <<>>,
   \* the progress of the filter loop: the last sample it filtered, whether
   \* every sample followed a smaller one, the last sample filtered when the
   \* snapshot was taken
   warm |-> [last |-> -1, ordered |-> TRUE, saved_after |-> -2]]

Opaque == [st |-> 0, bu |-> 0]

\* the compositions of the montages of this model
RawComp1 == [filenum |-> 1] @@ CompDefaults
ZratioComp1 ==
  [filenum |-> 1,
   zratio_filter |-> create_zratio_filter(edfheaderlist[1].edfparam[1].smp_per_record,
                                          edfheaderlist[1].long_data_record_duration),
   math_func_before |-> create_math_func(MATH_FUNC_PK_HOLD, 20)] @@ CompDefaults
DiffComp2 == [filenum |-> 2, edfsignal |-> <<1, 2>>, factor |-> <<1, -1>>] @@ CompDefaults
LowpassComp2 ==
  [filenum |-> 2,
   filter |-> <<[cutoff_frequency |-> <<3, 10>>, old_input |-> 0, old_output |-> 0]>>,
   filterpreset_a |-> <<0>>, filterpreset_b |-> <<0>>,
   plif_eeg_filter |-> <<[st |-> 0]>>, plif_eeg_filter_sav |-> <<[st |-> 0]>>,
   math_func_after |-> create_math_func(MATH_FUNC_ABS, 0)] @@ CompDefaults
MixComp2 ==
  [filenum |-> 2, edfsignal |-> <<2>>,
   spike_filter |-> <<Opaque>>,
   ravg_filter |-> <<[size |-> 9] @@ Opaque>>,
   fir_filter |-> <<[size |-> 5] @@ Opaque>>] @@ CompDefaults
\* the sum of signal 2 (6 samples per record) and signal 1 (3 per record)
SumComp2 ==
  [filenum |-> 2, edfsignal |-> <<2, 1>>, factor |-> <<1, 1>>,
   ravg_filter |-> <<[size |-> 9] @@ Opaque>>] @@ CompDefaults
EcgComp2 ==
  [filenum |-> 2,
   ecg_filter |-> <<Opaque>>,
   plif_ecg_filter |-> <<[st |-> 0]>>, plif_ecg_filter_sav |-> <<[st |-> 0]>>,
   fidfilter |-> <<[order |-> 2, freq |-> <<1, 2>>, buf |-> 0, buf2 |-> 0]>>] @@ CompDefaults

\* recording 1 through one first-order filter of 0.1 Hz, of 0.3 Hz
HighpassComp1 ==
  [filenum |-> 1,
   filter |-> <<[cutoff_frequency |-> <<1, 10>>, old_input |-> 0, old_output |-> 0]>>,
   filterpreset_a |-> <<0>>, filterpreset_b |-> <<0>>] @@ CompDefaults
LowpassComp1 ==
  [filenum |-> 1,
   filter |-> <<[cutoff_frequency |-> <<3, 10>>, old_input |-> 0, old_output |-> 0]>>,
   filterpreset_a |-> <<0>>, filterpreset_b |-> <<0>>] @@ CompDefaults

hdr(c) == edfheaderlist[c.filenum]
edfparam_0(c) == hdr(c).edfparam[c.edfsignal[1]]

\* the condition of viewbuf.cpp 175-177 (and, negated, of 389-391)
HasStatefulFilter(c) ==
  \/ Len(c.filter) > 0 \/ c.spike_filter # <<>> \/ Len(c.ravg_filter) > 0
  \/ Len(c.fidfilter) > 0 \/ Len(c.fir_filter) > 0 \/ c.plif_ecg_filter # <<>>
  \/ c.plif_eeg_filter # <<>> \/ c.ecg_filter # <<>> \/ c.zratio_filter # <<>>

-----------------------------------------------------------------------------
(* setup_viewbuf, first loop: the warm-up requirement pre_time *)

RECURSIVE PreTimeFilters(_, _, _)
PreTimeFilters(c, k, pre) ==
  IF k > Len(c.filter) THEN pre
  ELSE LET f == c.filter[k].cutoff_frequency     \* 1.0 / cutoff_frequency
       IN PreTimeFilters(c, k + 1, FracMax(pre, <<f[2], f[1]>>))

RECURSIVE PreTimeRavg(_, _, _)
PreTimeRavg(c, k, pre) ==
  IF k > Len(c.ravg_filter) THEN pre
  ELSE PreTimeRavg(c, k + 1, FracMax(pre, <<c.ravg_filter[k].size + 3, edfparam_0(c).sf_f>>))

RECURSIVE PreTimeFir(_, _, _)
PreTimeFir(c, k, pre) ==
  IF k > Len(c.fir_filter) THEN pre
  ELSE PreTimeFir(c, k + 1, FracMax(pre, <<c.fir_filter[k].size + 3, edfparam_0(c).sf_f>>))

\* the higher-order requirement assigned without the comparison
PreTimeFid_Overwrite(c, k, pre) ==
  IF k > Len(c.fidfilter) THEN pre
  ELSE <<2 * c.fidfilter[k].order * c.fidfilter[k].freq[2], c.fidfilter[k].freq[1]>>

RECURSIVE PreTimeFid(_, _, _)
PreTimeFid(c, k, pre) ==
  IF k > Len(c.fidfilter) THEN pre
  ELSE LET f == c.fidfilter[k]                   \* (2.0 * order) / freq
       IN PreTimeFid(c, k + 1, FracMax(pre, <<2 * f.order * f.freq[2], f.freq[1]>>))

PreTimeSpike(c, pre) == IF c.spike_filter # <<>> THEN FracMax(pre, <<5, 1>>) ELSE pre
PreTimePlifEcg(c, pre) == IF c.plif_ecg_filter # <<>> THEN FracMax(pre, <<2, 1>>) ELSE pre
PreTimePlifEeg(c, pre) == IF c.plif_eeg_filter # <<>> THEN FracMax(pre, <<1, 1>>) ELSE pre
PreTimeEcg(c, pre) == IF c.ecg_filter # <<>> THEN FracMax(pre, <<10, 1>>) ELSE pre
PreTimeZratio(c, pre) == IF c.zratio_filter # <<>> THEN FracMax(pre, <<4, 1>>) ELSE pre

\* pre_time after the loop body for composition c
PreTimeOfComp(c, pre) ==
  PreTimeFid(c, 1,
    PreTimeZratio(c,
      PreTimeEcg(c,
        PreTimeFir(c, 1,
          PreTimeRavg(c, 1,
            PreTimePlifEeg(c,
              PreTimePlifEcg(c,
                PreTimeSpike(c,
                  PreTimeFilters(c, 1, pre)))))))))

RECURSIVE PreTimeLoop(_, _, _)
PreTimeLoop(comps, i, pre) ==
  IF i > Len(comps) THEN pre ELSE PreTimeLoop(comps, i + 1, PreTimeOfComp(comps[i], pre))

HasPrefilter(comps) == \E i \in DOMAIN comps : HasStatefulFilter(comps[i])

\* the loop also resets every moving-average filter (line 120)
ResetRavgs(comps) ==
  [i \in DOMAIN comps |->
     [comps[i] EXCEPT !.ravg_filter = [k \in DOMAIN @ |-> reset_ravg_filter(@[k])]]]

-----------------------------------------------------------------------------
(* setup_viewbuf, warm-up phase: prefilter times and buffer layout *)

\* the clamp without its floor at 0
ClampPrefiltertime_NoFloor(pre_ticks, vt) == IF pre_ticks > vt THEN vt ELSE pre_ticks

\* lines 179-184, for a recording that a stateful composition refers to
ClampPrefiltertime(pre_ticks, vt) ==
  IF pre_ticks > vt THEN (IF vt < 0 THEN 0 ELSE vt) ELSE pre_ticks

\* lines 62 and 171-186: every recording starts at 0; each stateful
\* composition then sets the prefiltertime of its own recording
PrefilterTimes(comps, vt, pre) ==
  [f \in Files |->
     IF \E i \in DOMAIN comps : comps[i].filenum = f /\ HasStatefulFilter(comps[i])
     THEN ClampPrefiltertime(FracTicks(pre), vt[f])
     ELSE 0]

\* the search that never finds an earlier composition
EarlierOnFile_None(comps, i, j) == 0

\* the first earlier composition on the same file handle, 0 when there is none
\* (the search loops of lines 220-230, 313-320, 631-641 and 761-768)
RECURSIVE EarlierOnFile(_, _, _)
EarlierOnFile(comps, i, j) ==
  IF j >= i THEN 0
  ELSE IF comps[i].filenum = comps[j].filenum THEN j
  ELSE EarlierOnFile(comps, i, j + 1)

\* every composition gets a region of its own
AssignRegion_NoSharing(comps, i, totalsize) ==
  <<[comps EXCEPT ![i].viewbufoffset = totalsize], totalsize + comps[i].viewbufsize>>

\* lines 211-237 and 622-648: composition i takes the region of the first
\* earlier composition on its file, or a new region at the end
\* <<compositions, totalsize>>
AssignRegion(comps, i, totalsize) ==
  LET j == EarlierOnFile(comps, i, 1)
  IN IF i = 1 THEN <<[comps EXCEPT ![i].viewbufoffset = 0], comps[i].viewbufsize>>
     ELSE IF j # 0
     THEN <<[comps EXCEPT ![i].viewbufoffset = comps[j].viewbufoffset,
                          ![i].records_in_viewbuf = comps[j].records_in_viewbuf,
                          ![i].viewbufsize = comps[j].viewbufsize], totalsize>>
     ELSE <<[comps EXCEPT ![i].viewbufoffset = totalsize], totalsize + comps[i].viewbufsize>>

\* the warm-up sizes with the tests of the prefilter time left out
PrefilterSizes_Unguarded(c, vt, pft) ==
  LET dur == hdr(c).long_data_record_duration
      recs == CDiv(vt[c.filenum], dur) - CDiv(vt[c.filenum] - pft[c.filenum], dur) + 1
  IN [c EXCEPT !.records_in_viewbuf = recs,
               !.viewbufsize = recs * hdr(c).recordsize,
               !.samples_in_prefilterbuf =
                  (recs - 1) * edfparam_0(c).smp_per_record
                  + DblScale(CMod(vt[c.filenum], dur), dur, edfparam_0(c).smp_per_record)]

\* the warm-up sizes with the samples counted from view time - prefilter time
\* instead of from the start of the record that holds it
PrefilterSizes_FromPrefilterStart(c, vt, pft) ==
  LET dur == hdr(c).long_data_record_duration
      smp == edfparam_0(c).smp_per_record
      recs == IF pft[c.filenum] # 0
              THEN CDiv(vt[c.filenum], dur) - CDiv(vt[c.filenum] - pft[c.filenum], dur) + 1
              ELSE 0
  IN [c EXCEPT !.records_in_viewbuf = recs,
               !.viewbufsize = recs * hdr(c).recordsize,
               !.samples_in_prefilterbuf =
                  IF pft[c.filenum] # 0
                  THEN (vt[c.filenum] * smp) \div dur
                       - ((vt[c.filenum] - pft[c.filenum]) * smp) \div dur
                  ELSE 0]

\* lines 192-209: the warm-up sizes of one composition
PrefilterSizes(c, vt, pft) ==
  LET dur == hdr(c).long_data_record_duration
      recs == IF pft[c.filenum] # 0
              THEN CDiv(vt[c.filenum], dur) - CDiv(vt[c.filenum] - pft[c.filenum], dur) + 1
              ELSE 0
  IN [c EXCEPT !.records_in_viewbuf = recs,
               !.viewbufsize = recs * hdr(c).recordsize,
               !.samples_in_prefilterbuf =
                  IF pft[c.filenum] # 0
                  THEN (recs - 1) * edfparam_0(c).smp_per_record
                       + DblScale(CMod(vt[c.filenum], dur), dur, edfparam_0(c).smp_per_record)
                  ELSE 0]

\* lines 190-238  <<compositions, totalsize>>
RECURSIVE PrefilterLayout(_, _, _, _, _)
PrefilterLayout(comps, i, totalsize, vt, pft) ==
  IF i > Len(comps) THEN <<comps, totalsize>>
  ELSE LET sized == [comps EXCEPT ![i] = PrefilterSizes(comps[i], vt, pft)]
           r == AssignRegion(sized, i, totalsize)
       IN PrefilterLayout(r[1], i + 1, r[2], vt, pft)

-----------------------------------------------------------------------------
(* The view buffer as the code fills it.  A buffer of totalsize bytes is   *)
(* what malloc returns, written by the reads and memsets in program order: *)
(* an operation is [kind, off, len, file, fileoff].                        *)

ReadOp(off, len, f, fileoff) == [kind |-> "read", off |-> off, len |-> len, file |-> f, fileoff |-> fileoff]
FailedOp(off, len) == [kind |-> "failed", off |-> off, len |-> len, file |-> 0, fileoff |-> 0]
ZeroOp(off, len) == [kind |-> "zero", off |-> off, len |-> len, file |-> 0, fileoff |-> 0]

Covers(op, b) == op.off <= b /\ b < op.off + op.len

\* byte b (0-based) after the operations ops on a buffer whose bytes malloc
\* left at g
RECURSIVE ByteAfter(_, _, _, _)
ByteAfter(ops, n, b, g) ==
  IF n = 0 THEN g
  ELSE IF Covers(ops[n], b)
       THEN (IF ops[n].kind = "read" THEN FileByte(ops[n].file, ops[n].fileoff + (b - ops[n].off))
             ELSE IF ops[n].kind = "zero" THEN 0
             ELSE g)                      \* a read that failed
       ELSE ByteAfter(ops, n - 1, b, g)

FillBuffer(totalsize, ops, g) == [b \in 1..totalsize |-> ByteAfter(ops, Len(ops), b - 1, g)]

\* the position of file f after the operations ops[1..n], from the positions
\* pos0: a read that succeeded leaves the position behind its last byte
RECURSIVE FilePos(_, _, _, _)
FilePos(ops, n, f, pos0) ==
  IF n = 0 THEN pos0[f]
  ELSE IF ops[n].kind = "read" /\ ops[n].file = f THEN ops[n].fileoff + ops[n].len
  ELSE FilePos(ops, n - 1, f, pos0)

\* the position from which the fread after fseeko(file, fileoff, SEEK_SET)
\* reads: the result of fseeko is not looked at, and a seek that fails leaves
\* the position where it was
Fseeko(ops, f, fileoff, seekfails, pos0) ==
  IF seekfails THEN FilePos(ops, Len(ops), f, pos0) ELSE fileoff

\* fread(buffer, size, 1, file) at position pos returns 1
Fread(f, pos, size, readfails) == ~readfails /\ pos + size <= FileSize(f)

\* the faults of a call: the ordinal of the fread that fails and of the fseeko
\* that fails (0: none), with the file positions at the start of the phase
IoFaults(failAt, seekFailAt, pos0) == [failAt |-> failAt, seekFailAt |-> seekFailAt, pos |-> pos0]

\* a byte the code fetches at address a of the buffer; outside the buffer the
\* fetch returns whatever lies there
Fetch(buf, a, g) == IF (a + 1) \in DOMAIN buf THEN buf[a + 1] ELSE g

-----------------------------------------------------------------------------
(* setup_viewbuf, warm-up phase: the reads (lines 283-347) *)

\* [comps, ops, failed]; io are the faults of the call
RECURSIVE PrefilterReads(_, _, _, _, _, _)
PrefilterReads(comps, i, ops, vt, pft, io) ==
  IF i > Len(comps) THEN [comps |-> comps, ops |-> ops, failed |-> FALSE]
  ELSE IF i # 1 /\ EarlierOnFile(comps, i, 1) # 0
       THEN PrefilterReads(comps, i + 1, ops, vt, pft, io)
  ELSE
    LET c == comps[i]
        h == hdr(c)
        datarecords == CDiv(vt[c.filenum] - pft[c.filenum], h.long_data_record_duration)
        started == [comps EXCEPT ![i].prefilter_starttime = datarecords * h.long_data_record_duration]
    IN IF c.viewbufsize > 0 /\ datarecords < h.datarecords
       THEN LET avail == (h.datarecords - datarecords) * h.recordsize
                size == IF c.viewbufsize > avail THEN avail ELSE c.viewbufsize
                cut == [started EXCEPT ![i].viewbufsize = size]
                fileoff == Fseeko(ops, c.filenum, h.hdrsize + datarecords * h.recordsize,
                                  Len(ops) + 1 = io.seekFailAt, io.pos)
            IN IF ~Fread(c.filenum, fileoff, size, Len(ops) + 1 = io.failAt)
               THEN [comps |-> cut, ops |-> Append(ops, FailedOp(c.viewbufoffset, size)), failed |-> TRUE]
               ELSE PrefilterReads(cut, i + 1, Append(ops, ReadOp(c.viewbufoffset, size, c.filenum, fileoff)),
                                   vt, pft, io)
       ELSE PrefilterReads(started, i + 1, ops, vt, pft, io)

\* lines 349-385: the warm-up sample at which the Z-ratio filter is reset
PrefilterResetSample(c) ==
  LET dur == hdr(c).long_data_record_duration
      l_temp == CMod(c.prefilter_starttime, TIME_FIXP_SCALING * 2)
      temp == (TIME_FIXP_SCALING * 2) - l_temp
  IN IF c.zratio_filter = <<>> THEN c.prefilter_reset_sample
     ELSE IF l_temp # 0
     THEN CDiv(temp, dur) * edfparam_0(c).smp_per_record
          + DblScale(CMod(temp, dur), dur, edfparam_0(c).smp_per_record)
     ELSE 0

ResetSamples(comps) ==
  [i \in DOMAIN comps |-> [comps[i] EXCEPT !.prefilter_reset_sample = PrefilterResetSample(comps[i])]]

-----------------------------------------------------------------------------
(* setup_viewbuf, warm-up phase: the filter loop (lines 387-509) *)

\* bytes of one sample: 3 in a BDF recording, 2 in an EDF recording
BytesPerSample(c) == IF hdr(c).edf THEN 2 ELSE 3

\* lines 401-406 and 432-437: the address, in the buffer, of the first byte of
\* constituent signal k at warm-up sample s
SampleAddress(c, k, s) ==
  LET p == hdr(c).edfparam[c.edfsignal[k]]
  IN c.viewbufoffset + hdr(c).recordsize * (s \div p.smp_per_record) + p.datrec_offset
     + (s % p.smp_per_record) * BytesPerSample(c)

\* the addresses that the filter loop of composition c fetches (line 393:
\* s < samples_in_prefilterbuf, every constituent signal)
WarmupFetches(c) ==
  IF HasStatefulFilter(c)
  THEN UNION { { SampleAddress(c, k, smp) + j : j \in 0..(BytesPerSample(c) - 1) } :
                 k \in DOMAIN c.edfsignal, smp \in 0..(c.samples_in_prefilterbuf - 1) }
  ELSE {}

\* byte a of a buffer was written by a read that succeeded or by a memset
Written(ops, a) ==
  \E n \in DOMAIN ops : ops[n].kind \in {"read", "zero"} /\ Covers(ops[n], a)

\* *((unsigned short *)(viewbuf + a)) and *((short *)(viewbuf + a)): two bytes
\* in the byte order of the host, the low byte first
UnsignedShortAt(buf, a, g) == Fetch(buf, a, g) + 256 * Fetch(buf, a + 1, g)
ShortAt(buf, a, g) ==
  LET u == UnsignedShortAt(buf, a, g) IN IF u >= 32768 THEN u - 65536 ELSE u

\* the bytes of the union var without the extension of the sign: var.four[3]
\* is 0 whatever var.four[2] is
VarFour_NoSign(two0, b2) == <<two0 % 256, two0 \div 256, b2, 0>>

\* lines 399-423: the four bytes of the union var (lines 51-57) after
\* var.two[0] = two0, var.four[2] = b2 and the test of var.four[2] & 0x80
VarFour(two0, b2) ==
  <<two0 % 256, two0 \div 256, b2, IF (b2 \div 128) % 2 = 1 THEN 255 ELSE 0>>

\* var.one_signed: the four bytes read as a signed int, the low byte first
one_signed(four) ==
  four[1] + 256 * four[2] + 65536 * four[3]
  + 16777216 * (IF four[4] >= 128 THEN four[4] - 256 ELSE four[4])

\* lines 397-435: d_temp of constituent signal k at warm-up sample s, before
\* the offset is added
DecodeDigital(c, k, s, buf, g) ==
  LET a == SampleAddress(c, k, s)
      bdf_v == one_signed(VarFour(UnsignedShortAt(buf, a, g), Fetch(buf, a + 2, g)))
      edf_v == ShortAt(buf, a, g)
  IN IF hdr(c).edf THEN edf_v ELSE bdf_v

\* lines 397-442: the digital value of constituent signal k at warm-up sample s
DecodeSample(c, k, s, buf, g) ==
  (DecodeDigital(c, k, s, buf, g) + hdr(c).edfparam[c.edfsignal[k]].offset) * c.factor[k]

RECURSIVE SumSignals(_, _, _, _, _)
SumSignals(c, k, s, buf, g) ==
  IF k > Len(c.edfsignal) THEN 0
  ELSE DecodeSample(c, k, s, buf, g) + SumSignals(c, k + 1, s, buf, g)

\* one value through the instances j.. of a counted kind: <<value, instances>>
RECURSIVE RunStages(_, _, _, _)
RunStages(Run(_, _), x, seq, j) ==
  IF j > Len(seq) THEN <<x, seq>>
  ELSE LET r == Run(x, seq[j]) IN RunStages(Run, r[1], [seq EXCEPT ![j] = r[2]], j + 1)

\* the zratio step of lines 499-507, on the (present) filter
ZratioOut(z) == <<zratio_output(z), z>>
ZratioStep(x, zr, s, reset_sample) ==
  ZratioOut(run_zratio_filter(x, IF s = reset_sample THEN reset_zratio_filter(zr) ELSE zr))

\* the ecg step of lines 489-497
EcgStep(x, f, s) == run_ecg_filter(x, IF s = 0 THEN reset_ecg_filter(f) ELSE f)

\* The chain of lines 444-507 on <<value, composition>>, one kind per step
WithSpike(c, r) == <<r[1], [c EXCEPT !.spike_filter = r[2], !.stages = Append(@, "spike")]>>
WithMathBefore(c, r) == <<r[1], [c EXCEPT !.math_func_before = r[2], !.stages = Append(@, "math_func_before")]>>
WithFilter(c, r) == <<r[1], [c EXCEPT !.filter = r[2], !.stages = Append(@, "filter")]>>
WithRavg(c, r) == <<r[1], [c EXCEPT !.ravg_filter = r[2], !.stages = Append(@, "ravg")]>>
WithFid(c, r) == <<r[1], [c EXCEPT !.fidfilter = r[2], !.stages = Append(@, "fid")]>>
WithFir(c, r) == <<r[1], [c EXCEPT !.fir_filter = r[2], !.stages = Append(@, "fir")]>>
WithMathAfter(c, r) == <<r[1], [c EXCEPT !.math_func_after = r[2], !.stages = Append(@, "math_func_after")]>>
WithPlifEcg(c, r) == <<r[1], [c EXCEPT !.plif_ecg_filter = r[2], !.stages = Append(@, "plif_ecg")]>>
WithPlifEeg(c, r) == <<r[1], [c EXCEPT !.plif_eeg_filter = r[2], !.stages = Append(@, "plif_eeg")]>>
WithEcg(c, r) == <<r[1], [c EXCEPT !.ecg_filter = <<r[2]>>, !.stages = Append(@, "ecg")]>>
WithZratio(c, r) == <<r[1], [c EXCEPT !.zratio_filter = <<r[2]>>, !.stages = Append(@, "zratio")]>>

StepSpike(a) ==
  IF a[2].spike_filter = <<>> THEN a
  ELSE WithSpike(a[2], RunStages(run_spike_filter, a[1], a[2].spike_filter, 1))
StepMathBefore(a) ==
  IF a[2].math_func_before = <<>> THEN a
  ELSE WithMathBefore(a[2], RunStages(run_math_func, a[1], a[2].math_func_before, 1))
StepFilter(a) ==
  IF a[2].filter = <<>> THEN a
  ELSE WithFilter(a[2], RunStages(first_order_filter, a[1], a[2].filter, 1))
StepRavg(a) ==
  IF a[2].ravg_filter = <<>> THEN a
  ELSE WithRavg(a[2], RunStages(run_ravg_filter, a[1], a[2].ravg_filter, 1))
StepFid(a) ==
  IF a[2].fidfilter = <<>> THEN a
  ELSE WithFid(a[2], RunStages(run_fid_filter, a[1], a[2].fidfilter, 1))
StepFir(a) ==
  IF a[2].fir_filter = <<>> THEN a
  ELSE WithFir(a[2], RunStages(run_fir_filter, a[1], a[2].fir_filter, 1))
StepMathAfter(a) ==
  IF a[2].math_func_after = <<>> THEN a
  ELSE WithMathAfter(a[2], RunStages(run_math_func, a[1], a[2].math_func_after, 1))
StepPlifEcg(a) ==
  IF a[2].plif_ecg_filter = <<>> THEN a
  ELSE WithPlifEcg(a[2], RunStages(plif_ecg_run_subtract_filter, a[1], a[2].plif_ecg_filter, 1))
StepPlifEeg(a) ==
  IF a[2].plif_eeg_filter = <<>> THEN a
  ELSE WithPlifEeg(a[2], RunStages(plif_eeg_run_subtract_filter, a[1], a[2].plif_eeg_filter, 1))
StepEcg(a, s) ==
  IF a[2].ecg_filter = <<>> THEN a
  ELSE WithEcg(a[2], EcgStep(a[1], a[2].ecg_filter[1], s))
StepZratio(a, s) ==
  IF a[2].zratio_filter = <<>> THEN a
  ELSE WithZratio(a[2], ZratioStep(a[1], a[2].zratio_filter[1], s, a[2].prefilter_reset_sample))

\* the chain with the math functions after the sum applied last
PrefilterSample_MathLast(c, s, buf, g) ==
  StepMathAfter(
    StepZratio(
      StepEcg(
        StepPlifEeg(
          StepPlifEcg(
            StepFir(
              StepFid(
                StepRavg(
                  StepFilter(
                    StepMathBefore(
                      StepSpike(<<SumSignals(c, 1, s, buf, g),
                                  [c EXCEPT !.stages = <<"sum">>,
                                             !.warm = [@ EXCEPT !.ordered = @ /\ s > c.warm.last,
                                                                !.last = s]]>>)))))))), s), s))[2]

\* composition c after warm-up sample s (lines 395-507)
PrefilterSample(c, s, buf, g) ==
  StepZratio(
    StepEcg(
      StepPlifEeg(
        StepPlifEcg(
          StepMathAfter(
            StepFir(
              StepFid(
                StepRavg(
                  StepFilter(
                    StepMathBefore(
                      StepSpike(<<SumSignals(c, 1, s, buf, g),
                                  [c EXCEPT !.stages = <<"sum">>,
                                             !.warm = [@ EXCEPT !.ordered = @ /\ s > c.warm.last,
                                                                !.last = s]]>>))))))))), s), s)[2]

\* the samples hi-1 .. lo in decreasing order
RECURSIVE PrefilterSamples_Descending(_, _, _, _, _)
PrefilterSamples_Descending(c, lo, hi, buf, g) ==
  IF hi <= lo THEN c
  ELSE IF hi = lo + 1 THEN PrefilterSample(c, lo, buf, g)
  ELSE LET mid == (lo + hi) \div 2
       IN CHOOSE r \in {PrefilterSamples_Descending(a, lo, mid, buf, g) :
                          a \in {PrefilterSamples_Descending(c, mid, hi, buf, g)}} : TRUE

\* the samples lo .. hi-1 in increasing order (the loop of line 393)
RECURSIVE PrefilterSamples(_, _, _, _, _)
PrefilterSamples(c, lo, hi, buf, g) ==
  IF hi <= lo THEN c
  ELSE IF hi = lo + 1 THEN PrefilterSample(c, lo, buf, g)
  ELSE LET mid == (lo + hi) \div 2
       IN CHOOSE r \in {PrefilterSamples(a, mid, hi, buf, g) : a \in {PrefilterSamples(c, lo, mid, buf, g)}} : TRUE

PrefilterRun(comps, buf, g) ==
  [i \in DOMAIN comps |->
     IF HasStatefulFilter(comps[i])
     THEN PrefilterSamples([comps[i] EXCEPT !.warm = [last |-> -1, ordered |-> TRUE, saved_after |-> -2]],
                           0, comps[i].samples_in_prefilterbuf, buf, g)
     ELSE comps[i]]

-----------------------------------------------------------------------------
(* setup_viewbuf, warm-up phase: the snapshots (lines 511-561) *)

SaveBu(f) == [f EXCEPT !.bu = f.st]

PrefilterSave(c) ==
  IF c.samples_in_prefilterbuf > 0
  THEN [c EXCEPT !.spike_filter = [k \in DOMAIN @ |-> SaveBu(@[k])],
                 !.filterpreset_a = [k \in DOMAIN c.filter |-> c.filter[k].old_input],
                 !.filterpreset_b = [k \in DOMAIN c.filter |-> c.filter[k].old_output],
                 !.ravg_filter = [k \in DOMAIN @ |-> SaveBu(@[k])],
                 !.fidfilter = [k \in DOMAIN c.fidfilter |-> [c.fidfilter[k] EXCEPT !.buf2 = c.fidfilter[k].buf]],
                 !.fir_filter = [k \in DOMAIN @ |-> SaveBu(@[k])],
                 !.plif_ecg_filter_sav = c.plif_ecg_filter,
                 !.plif_eeg_filter_sav = c.plif_eeg_filter,
                 !.ecg_filter = [k \in DOMAIN @ |-> SaveBu(@[k])],
                 !.zratio_filter = [k \in DOMAIN @ |-> zratio_filter_save_buf(@[k])],
                 !.warm = [@ EXCEPT !.saved_after = c.warm.last]]
  ELSE c

SaveAll(comps) == [i \in DOMAIN comps |-> PrefilterSave(comps[i])]

-----------------------------------------------------------------------------
(* setup_viewbuf, visible window: layout (lines 566-649) *)

\* sample_start without the division by the record duration being rounded:
\* the fraction of a sample is dropped
SampleStart_Truncated(c, v) ==
  IF v < 0 THEN ((-v) * edfparam_0(c).smp_per_record) \div hdr(c).long_data_record_duration ELSE 0

\* lines 580-595: sample_start = (long long)(d_temp + 0.5) for a view time v
\* before the start of the recording (the cap at 0x7fffffff is out of reach
\* of the view times here), 0 otherwise
SampleStart(c, v) ==
  IF v < 0
  THEN (2 * (-v) * edfparam_0(c).smp_per_record + hdr(c).long_data_record_duration)
          \div (2 * hdr(c).long_data_record_duration)
  ELSE 0

\* the count of line 568 without the record added at the end
RecordsInViewbuf_Whole(v, pt, dur) ==
  IF v >= 0 THEN (pt + CMod(v, dur)) \div dur
  ELSE (pt + CMod(-v, dur)) \div dur

\* the count of line 568 without the record of the remainder
RecordsInViewbuf_NoRemainder(v, pt, dur) == (pt \div dur) + 1

\* lines 568-569: records_in_viewbuf of the visible window
RecordsInViewbuf(v, pt, dur) ==
  IF v >= 0 THEN ((pt + CMod(v, dur)) \div dur) + 1
  ELSE ((pt + CMod(-v, dur)) \div dur) + 1

\* lines 568-620 for one composition
VisibleSizes(c, vt, pt) ==
  LET dur == hdr(c).long_data_record_duration
      smp == edfparam_0(c).smp_per_record
      v == vt[c.filenum]
      recs == RecordsInViewbuf(v, pt, dur)
      \* sample_timeoffset_part, in units of 1/dur sample
      part == IF v >= 0 THEN (CMod(v, dur) * smp) % dur
              ELSE LET fr == (CMod(-v, dur) * smp) % dur
                   IN -(IF 2 * fr >= dur THEN fr - dur ELSE fr)
  IN [c EXCEPT !.records_in_viewbuf = recs,
               !.viewbufsize = recs * hdr(c).recordsize,
               !.samples_on_screen = DblScale(pt, dur, smp),
               !.sample_start = SampleStart(c, v),
               !.sample_timeoffset = IF v >= 0 THEN DblScale(CMod(v, dur), dur, smp) ELSE 0,
               !.sample_timeoffset_part = part]

\* <<compositions, totalsize>>
RECURSIVE VisibleLayout(_, _, _, _, _)
VisibleLayout(comps, i, totalsize, vt, pt) ==
  IF i > Len(comps) THEN <<comps, totalsize>>
  ELSE LET sized == [comps EXCEPT ![i] = VisibleSizes(comps[i], vt, pt)]
           r == AssignRegion(sized, i, totalsize)
       IN VisibleLayout(r[1], i + 1, r[2], vt, pt)

-----------------------------------------------------------------------------
(* setup_viewbuf, visible window: reads and zero fill (lines 698-839) *)

\* the region left as malloc returned it
ZeroTail_Skipped(ops, c, readsize) == ops

\* the memset of the part of the region that no record of the file covers
ZeroTail(ops, c, readsize) ==
  Append(ops, ZeroOp(c.viewbufoffset + readsize, c.records_in_viewbuf * hdr(c).recordsize - readsize))

\* the page length whatever the recording holds
SampleStop_PageLength(c, dif) == c.samples_on_screen

\* sample_stop before sample_start is added (lines 724, 734, 740)
SampleStop(c, dif) ==
  IF dif <= 0 THEN 0
  ELSE IF dif < c.records_in_viewbuf
       THEN dif * edfparam_0(c).smp_per_record - c.sample_timeoffset
       ELSE c.samples_on_screen

\* [comps, ops, failed]; nread counts the freads of the call so far
RECURSIVE VisibleReads(_, _, _, _, _, _)
VisibleReads(comps, i, ops, nread, vt, io) ==
  IF i > Len(comps) THEN [comps |-> comps, ops |-> ops, failed |-> FALSE]
  ELSE
    LET c == comps[i]
        h == hdr(c)
        skip == i # 1 /\ EarlierOnFile(comps, i, 1) # 0
        datarecords == IF vt[c.filenum] >= 0 THEN vt[c.filenum] \div h.long_data_record_duration ELSE 0
        dif == h.datarecords - datarecords
        readsize == IF dif < c.records_in_viewbuf THEN dif * h.recordsize
                    ELSE c.records_in_viewbuf * h.recordsize
        stopped == [comps EXCEPT ![i].sample_stop = SampleStop(c, dif) + c.sample_start]
        fileoff == Fseeko(ops, c.filenum, h.hdrsize + datarecords * h.recordsize,
                          nread + 1 = io.seekFailAt, io.pos)
    IN IF skip THEN VisibleReads(stopped, i + 1, ops, nread, vt, io)
       ELSE IF dif <= 0
            THEN VisibleReads(stopped, i + 1, ZeroTail(ops, c, 0), nread, vt, io)
       ELSE LET zeroed == IF dif < c.records_in_viewbuf THEN ZeroTail(ops, c, readsize) ELSE ops
            IN IF ~Fread(c.filenum, fileoff, readsize, nread + 1 = io.failAt)
               THEN [comps |-> [comps EXCEPT ![i].sample_stop = SampleStop(c, dif)],
                     ops |-> Append(zeroed, FailedOp(c.viewbufoffset, readsize)), failed |-> TRUE]
               ELSE VisibleReads(stopped, i + 1, Append(zeroed, ReadOp(c.viewbufoffset, readsize, c.filenum, fileoff)),
                                 nread + 1, vt, io)

-----------------------------------------------------------------------------
(* What a call leaves behind for inspection *)

\* the instance kinds of composition c whose state the snapshot pass copied
SnapshotKinds(c) ==
  IF c.samples_in_prefilterbuf > 0
  THEN {k \in {"spike", "filter", "ravg", "fid", "fir", "plif_ecg", "plif_eeg", "ecg", "zratio"} :
          \/ k = "spike" /\ c.spike_filter # <<>>
          \/ k = "filter" /\ Len(c.filter) > 0
          \/ k = "ravg" /\ Len(c.ravg_filter) > 0
          \/ k = "fid" /\ Len(c.fidfilter) > 0
          \/ k = "fir" /\ Len(c.fir_filter) > 0
          \/ k = "plif_ecg" /\ c.plif_ecg_filter # <<>>
          \/ k = "plif_eeg" /\ c.plif_eeg_filter # <<>>
          \/ k = "ecg" /\ c.ecg_filter # <<>>
          \/ k = "zratio" /\ c.zratio_filter # <<>>}
  ELSE {}

\* the saved filter state of composition c
SavedState(c) ==
  [spike |-> [k \in DOMAIN c.spike_filter |-> c.spike_filter[k].bu],
   filter_a |-> c.filterpreset_a, filter_b |-> c.filterpreset_b,
   ravg |-> [k \in DOMAIN c.ravg_filter |-> c.ravg_filter[k].bu],
   fid |-> [k \in DOMAIN c.fidfilter |-> c.fidfilter[k].buf2],
   fir |-> [k \in DOMAIN c.fir_filter |-> c.fir_filter[k].bu],
   plif_ecg |-> c.plif_ecg_filter_sav, plif_eeg |-> c.plif_eeg_filter_sav,
   ecg |-> [k \in DOMAIN c.ecg_filter |-> c.ecg_filter[k].bu],
   zratio |-> [k \in DOMAIN c.zratio_filter |->
                 [smpls |-> c.zratio_filter[k].smpls_in_inputbuf_bu,
                  value |-> c.zratio_filter[k].zratio_value_bu,
                  buf |-> SubSeq(c.zratio_filter[k].fft_inputbuf_bu, 1,
                                 Min(c.zratio_filter[k].smpls_in_inputbuf_bu,
                                     c.zratio_filter[k].dftblocksize \div SIZEOF_DOUBLE))]]]

\* composition c with every filter instance as it was created
AsCreated(c) ==
  [c EXCEPT !.spike_filter = [k \in DOMAIN @ |-> [@[k] EXCEPT !.st = 0]],
            !.filter = [k \in DOMAIN @ |-> [@[k] EXCEPT !.old_input = 0, !.old_output = 0]],
            !.ravg_filter = [k \in DOMAIN @ |-> [@[k] EXCEPT !.st = 0]],
            !.fidfilter = [k \in DOMAIN @ |-> [@[k] EXCEPT !.buf = 0]],
            !.fir_filter = [k \in DOMAIN @ |-> [@[k] EXCEPT !.st = 0]],
            !.plif_ecg_filter = [k \in DOMAIN @ |-> [@[k] EXCEPT !.st = 0]],
            !.plif_eeg_filter = [k \in DOMAIN @ |-> [@[k] EXCEPT !.st = 0]],
            !.ecg_filter = [k \in DOMAIN @ |-> [@[k] EXCEPT !.st = 0]],
            !.zratio_filter = [k \in DOMAIN @ |->
                [@[k] EXCEPT !.smpls_in_inputbuf = 0, !.zratio_value = 0,
                             !.fft_inputbuf = [n \in 1..c.zratio_filter[k].dftblocksize |-> 0]]],
            !.math_func_before = [k \in DOMAIN @ |-> [@[k] EXCEPT !.pk_hold_val = 0, !.pk_hold_smpl_cntr = 0]],
            !.math_func_after = [k \in DOMAIN @ |-> [@[k] EXCEPT !.pk_hold_val = 0, !.pk_hold_smpl_cntr = 0]]]

ReadLog(ops, phase) ==
  [n \in DOMAIN ops |-> [phase |-> phase, kind |-> ops[n].kind, file |-> ops[n].file,
                         fileoff |-> ops[n].fileoff, size |-> ops[n].len]]

OnlyReads(log) == SelectSeq(log, LAMBDA r : r.kind # "zero")

Region(c) == [filenum |-> c.filenum, viewbufoffset |-> c.viewbufoffset,
              records_in_viewbuf |-> c.records_in_viewbuf, viewbufsize |-> c.viewbufsize]

NoCall ==
  [status |-> "none", hasprefilter |-> FALSE, pre_time |-> <<0, 1>>, stateful_files |-> {}, failat |-> 0, seekfailat |-> 0,
   prelayout |-> <<>>, pretotal |-> 0, vistotal |-> 0, reads |-> <<>>,
   fetched_unwritten |-> {}, fetched_outside |-> {}, visible_unwritten |-> {},
   steps |-> <<>>, snapshots |-> <<>>, fresh |-> <<>>, again |-> FALSE]

-----------------------------------------------------------------------------
(* UI_Mainwindow::setup_viewbuf *)

\* remove_all_signals(): the list of compositions is emptied
remove_all_signals(comps) == <<>>

\* the platform's limit on the size of the buffer (lines 249 and 662 of the
\* 64-bit build; the 32-bit build compares with UINT_MAX itself)
MemoryLimit == UINT_MAX * 32

\* a limit that no size reaches
MemoryLimitReached_Never(totalsize) == FALSE

\* lines 249 and 662
MemoryLimitReached(totalsize) == totalsize >= MemoryLimit

\* the warm-up phase (lines 171-562) from compositions comps:
\* [comps, pft, total, ops, failed, layout]
PrefilterPhase(comps, vt, g, io) ==
  LET pre == PreTimeLoop(comps, 1, <<0, 1>>)
      pft == PrefilterTimes(comps, vt, pre)
      lay == PrefilterLayout(comps, 1, 0, vt, pft)
      rd == PrefilterReads(lay[1], 1, <<>>, vt, pft, io)
  IN IF MemoryLimitReached(lay[2])
     THEN [comps |-> lay[1], pft |-> pft, total |-> lay[2], ops |-> <<>>, failed |-> FALSE,
           nomem |-> TRUE, buf |-> <<>>, layout |-> [i \in DOMAIN comps |-> Region(lay[1][i])]]
     ELSE CHOOSE r \in
       { [comps |-> IF rd.failed THEN rd.comps
                    ELSE SaveAll(PrefilterRun(ResetSamples(rd.comps), buf, g)),
          pft |-> pft, total |-> lay[2], ops |-> rd.ops, failed |-> rd.failed, nomem |-> FALSE,
          buf |-> buf, layout |-> [i \in DOMAIN comps |-> Region(lay[1][i])]]
         : buf \in {FillBuffer(lay[2], rd.ops, g)} } : TRUE

NoPrefilterPhase(comps) ==
  [comps |-> comps, pft |-> [f \in Files |-> 0], total |-> 0, ops |-> <<>>, failed |-> FALSE,
   nomem |-> FALSE, buf |-> <<>>, layout |-> <<>>]

\* the visible-window phase (lines 564-839): [comps, total, ops, failed, buf]
VisiblePhase(comps, vt, pt, g, nread, io) ==
  LET lay == VisibleLayout(comps, 1, 0, vt, pt)
      rd == VisibleReads(lay[1], 1, <<>>, nread, vt, io)
  IN IF lay[2] # 0 /\ MemoryLimitReached(lay[2])
     THEN [comps |-> lay[1], total |-> lay[2], ops |-> <<>>, failed |-> FALSE, nomem |-> TRUE, buf |-> <<>>]
     ELSE [comps |-> rd.comps, total |-> lay[2], ops |-> rd.ops, failed |-> rd.failed, nomem |-> FALSE,
           buf |-> FillBuffer(lay[2], rd.ops, g)]

\* the steps of a call that reaches line 1063, in the order of execution:
\* the reads of the warm-up (lines 283-347), the filter loop of each
\* composition that has a filter with a state (387-509), the snapshots
\* (511-561), the reads of the visible window (698-839), drawCurve_stage_1
CallSteps(w, v) ==
  LET n == Len(w.comps)
      filtered == SelectSeq([i \in 1..n |-> i],
                            LAMBDA i : HasStatefulFilter(w.comps[i]) /\ w.comps[i].samples_in_prefilterbuf > 0)
      saved == SelectSeq([i \in 1..n |-> i], LAMBDA i : w.comps[i].samples_in_prefilterbuf > 0)
  IN [k \in DOMAIN w.ops |-> [step |-> "prefilter_read", comp |-> 0]]
     \o [k \in DOMAIN filtered |-> [step |-> "filter", comp |-> filtered[k]]]
     \o [k \in DOMAIN saved |-> [step |-> "snapshot", comp |-> saved[k]]]
     \o [k \in DOMAIN v.ops |-> [step |-> "visible_read", comp |-> 0]]
     \o << [step |-> "drawCurve_stage_1", comp |-> 0] >>

\* One navigation event: the caller has set the view times vt and the page
\* time pt; malloc returns memory filled with g; the failAt-th fread and the
\* seekFailAt-th fseeko fail.  With modal = FALSE the step is the whole call,
\* the message box of an error branch dismissed at once; with modal = TRUE a
\* call that takes an error branch stops in QMessageBox::critical, before
\* remove_all_signals and the clamp of the page time, and waits in msgbox.
SetupViewbuf(vt, pt, g, failAt, seekFailAt, modal) ==
  \E has \in {HasPrefilter(signalcomp)}, comps0 \in {ResetRavgs(signalcomp)},
     io \in {IoFaults(failAt, seekFailAt, filepos)} :
  \E w \in {IF has THEN PrefilterPhase(comps0, vt, g, io) ELSE NoPrefilterPhase(comps0)} :
  \E fresh \in {IF has /\ ~w.failed /\ ~w.nomem
                THEN PrefilterPhase([i \in DOMAIN comps0 |-> AsCreated(comps0[i])], vt, g, io).comps
                ELSE <<>>} :
  \E iov \in {IoFaults(failAt, seekFailAt, [f \in Files |-> FilePos(w.ops, Len(w.ops), f, filepos)])} :
  \E v \in {IF w.failed \/ w.nomem THEN NoPrefilterPhase(w.comps)
            ELSE VisiblePhase(w.comps, vt, pt, g, Len(w.ops), iov)} :
  \E result \in {[hasprefilter |-> has,
                  pre_time |-> PreTimeLoop(signalcomp, 1, <<0, 1>>),
                  failat |-> failAt, seekfailat |-> seekFailAt,
                  stateful_files |-> {signalcomp[i].filenum : i \in {j \in DOMAIN signalcomp : HasStatefulFilter(signalcomp[j])}},
                  prelayout |-> w.layout, pretotal |-> w.total,
                  \* addresses of the warm-up buffer that the filter loop fetched
                  \* and nothing had written; addresses it fetched outside the buffer
                  fetched_unwritten |->
                     IF has /\ ~w.failed /\ ~w.nomem
                     THEN {a \in UNION {WarmupFetches(w.comps[i]) : i \in DOMAIN w.comps} :
                             a \in 0..(w.total - 1) /\ ~Written(w.ops, a)}
                     ELSE {},
                  fetched_outside |->
                     IF has /\ ~w.failed /\ ~w.nomem
                     THEN {a \in UNION {WarmupFetches(w.comps[i]) : i \in DOMAIN w.comps} :
                             a \notin 0..(w.total - 1)}
                     ELSE {},
                  \* bytes of the visible buffer that nothing had written
                  visible_unwritten |->
                     IF v.failed \/ v.nomem THEN {}
                     ELSE {a \in 0..(v.total - 1) : ~Written(v.ops, a)},
                  steps |-> IF w.failed \/ w.nomem \/ v.failed \/ v.nomem THEN <<>> ELSE CallSteps(w, v),
                  again |-> (~has /\ vt = viewtime /\ pt = pagetime /\ call.status = "ok")]} :
     /\ viewtime' = vt
     /\ pagetime' = IF ~modal /\ (w.nomem \/ v.nomem) /\ pt > TIME_FIXP_SCALING THEN TIME_FIXP_SCALING ELSE pt
     /\ msgbox' = IF modal /\ (w.nomem \/ w.failed \/ v.nomem \/ v.failed)
                  THEN Append(msgbox, [clamp |-> w.nomem \/ v.nomem])
                  ELSE msgbox
     /\ prefiltertime' = w.pft
     /\ filepos' = [f \in Files |-> FilePos(v.ops, Len(v.ops), f, iov.pos)]
     /\ UNCHANGED <<zf, zaux, dec, mf>>
     /\ IF w.nomem
        THEN /\ signalcomp' = (IF modal THEN w.comps ELSE remove_all_signals(w.comps))
             /\ viewbuf' = <<>>
             /\ call' = result @@ [status |-> "memory_limit", vistotal |-> 0, reads |-> <<>>,
                                   snapshots |-> <<>>, fresh |-> <<>>]
        ELSE IF w.failed
        THEN /\ signalcomp' = (IF modal THEN w.comps ELSE remove_all_signals(w.comps))
             /\ viewbuf' = w.buf
             /\ call' = result @@ [status |-> "read_error", vistotal |-> 0,
                                   reads |-> OnlyReads(ReadLog(w.ops, "prefilter")),
                                   snapshots |-> <<>>, fresh |-> <<>>]
        ELSE IF v.nomem
        THEN /\ signalcomp' = (IF modal THEN v.comps ELSE remove_all_signals(v.comps))
             /\ viewbuf' = <<>>
             /\ call' = result @@ [status |-> "memory_limit", vistotal |-> v.total,
                                   reads |-> OnlyReads(ReadLog(w.ops, "prefilter")),
                                   snapshots |-> <<>>, fresh |-> <<>>]
        ELSE IF v.failed
        THEN /\ signalcomp' = (IF modal THEN v.comps ELSE remove_all_signals(v.comps))
             /\ viewbuf' = v.buf
             /\ call' = result @@ [status |-> "read_error", vistotal |-> v.total,
                                   reads |-> OnlyReads(ReadLog(w.ops, "prefilter") \o ReadLog(v.ops, "visible")),
                                   snapshots |-> <<>>, fresh |-> <<>>]
        ELSE /\ signalcomp' = v.comps
             /\ viewbuf' = v.buf
             /\ call' = result @@ [status |-> "ok", vistotal |-> v.total,
                                   reads |-> OnlyReads(ReadLog(w.ops, "prefilter") \o ReadLog(v.ops, "visible")),
                                   snapshots |-> [i \in DOMAIN w.comps |-> SnapshotKinds(w.comps[i])],
                                   fresh |-> [i \in DOMAIN fresh |-> SavedState(fresh[i])]]

-----------------------------------------------------------------------------
(* Inputs *)

\* <<view time of recording 1, view time of recording 2, page time>>, in ticks
Views ==
  { <<-13560000, -2000000, 10000000>>,  \* both before the start
    <<0, 0, 10000000>>,
    <<0, 0, 45000000>>,                 \* a page of 4.5 s
    <<1000000, 40000000, 1000000>>,     \* 0.1 s and 4 s
    <<45500000, 59500000, 1000000>>,    \* 4.55 s and 5.95 s: the page crosses into record 2 of recording 2
    <<2100000, 110000000, 30000000>>,   \* 11 s to 14 s: the page runs over the end of recording 2
    <<2100000, 125000000, 10000000>> }  \* recording 2 past its end

\* <<what malloc'ed memory holds, ordinal of the fread that fails (0: none)>>
Faults == { <<85, 0>>, <<170, 0>>, <<85, 1>>, <<170, 2>> }

MontageList ==
  << <<>>,
     <<RawComp1>>, <<DiffComp2>>, <<ZratioComp1>>, <<LowpassComp2>>, <<MixComp2>>, <<EcgComp2>>,
     <<HighpassComp1>>, <<LowpassComp1>>, <<SumComp2>>,
     <<RawComp1, DiffComp2>>, <<DiffComp2, DiffComp2>>, <<RawComp1, ZratioComp1>>,
     <<LowpassComp2, RawComp1>>, <<MixComp2, EcgComp2>>,
     <<RawComp1, DiffComp2, RawComp1>>, <<LowpassComp2, RawComp1, EcgComp2>> >>

Montages == {MontageList[n] : n \in {k \in DOMAIN MontageList : Len(MontageList[k]) <= MaxComps}}

Init ==
  /\ signalcomp \in Montages
  /\ viewtime = [f \in Files |-> 0]
  /\ prefiltertime = [f \in Files |-> 0]
  /\ pagetime = 10000000
  /\ viewbuf = <<>>
  /\ call = NoCall
  /\ dec = <<>>
  /\ mf = <<>>
  /\ filepos = [f \in Files |-> edfheaderlist[f].hdrsize]
  /\ msgbox = <<>>
  /\ zf = <<>>
  /\ zaux = <<>>

Navigate ==
  \E w \in Views, x \in Faults :
     SetupViewbuf([f \in Files |-> w[f]], w[3], x[1], x[2], 0, FALSE)

Next == Navigate

Spec == Init /\ [][Next]_vars

-----------------------------------------------------------------------------
(* Navigation with seeks that fail: the montages without long warm-up.     *)

\* <<what malloc'ed memory holds, ordinal of the fread that fails, ordinal of
\* the fseeko that fails>>
SeekFaults == { <<85, 0, 0>>, <<85, 0, 1>>, <<85, 0, 2>>, <<85, 1, 1>> }

SeekMontages ==
  { <<RawComp1>>, <<LowpassComp2, RawComp1>> }

InitSeek ==
  /\ signalcomp \in SeekMontages
  /\ viewtime = [f \in Files |-> 0]
  /\ prefiltertime = [f \in Files |-> 0]
  /\ pagetime = 10000000
  /\ viewbuf = <<>>
  /\ call = NoCall
  /\ dec = <<>>
  /\ mf = <<>>
  /\ filepos = [f \in Files |-> edfheaderlist[f].hdrsize]
  /\ msgbox = <<>>
  /\ zf = <<>>
  /\ zaux = <<>>

NavigateSeek ==
  \E w \in Views, x \in SeekFaults :
     SetupViewbuf([f \in Files |-> w[f]], w[3], x[1], x[2], x[3], FALSE)

NextSeek == NavigateSeek

SpecSeek == InitSeek /\ [][NextSeek]_vars

-----------------------------------------------------------------------------
(* The Z-ratio filter on its own: one filter of 100 Hz (blocks of 200      *)
(* samples) is fed an input stream in bursts, saved, reset and restored.   *)
(* zaux keeps the position in the stream, what the filter was at the save  *)
(* and what it returned on the first pass after the save.                  *)

\* the k-th sample of the input stream (k >= 0)
ZInput(k) == ((k * 37 + 11) % 101) - 50

ZBursts == {20, 170}

\* the filter after run_zratio_filter on the samples lo .. hi-1 of the stream
RECURSIVE ZFeed(_, _, _)
ZFeed(z, lo, hi) ==
  IF hi <= lo THEN z
  ELSE IF hi = lo + 1 THEN run_zratio_filter(ZInput(lo), z)
  ELSE LET mid == (lo + hi) \div 2
       IN CHOOSE r \in {ZFeed(a, mid, hi) : a \in {ZFeed(z, lo, mid)}} : TRUE

\* the running state of a filter: the sample counter, the current ratio and
\* the buffered samples of the current block
RunningState(z) ==
  [smpls_in_inputbuf |-> z.smpls_in_inputbuf,
   zratio_value |-> z.zratio_value,
   fft_inputbuf |-> SubSeq(z.fft_inputbuf, 1, z.smpls_in_inputbuf)]

InitZ ==
  /\ signalcomp = <<>>
  /\ viewtime = [f \in Files |-> 0]
  /\ prefiltertime = [f \in Files |-> 0]
  /\ pagetime = 10000000
  /\ viewbuf = <<>>
  /\ call = NoCall
  /\ dec = <<>>
  /\ mf = <<>>
  /\ filepos = [f \in Files |-> edfheaderlist[f].hdrsize]
  /\ msgbox = <<>>
  /\ zf = create_zratio_filter(edfheaderlist[1].edfparam[1].smp_per_record,
                               edfheaderlist[1].long_data_record_duration)[1]
  /\ zaux = [pos |-> 0, phase |-> "run", mark |-> 0, at_save |-> <<>>, returned |-> <<>>, resets |-> 0]

\* run_zratio_filter on the next n samples of the stream
ZRun(n) ==
  /\ zaux.pos + n <= MaxSamples
  /\ \E z \in {ZFeed(zf, zaux.pos, zaux.pos + n)} :
       /\ zf' = z
       /\ zaux' = [zaux EXCEPT !.pos = @ + n,
                               !.returned = IF zaux.phase = "saved"
                                            THEN Append(@, <<zaux.pos + n, zratio_output(z)>>)
                                            ELSE @]
  /\ UNCHANGED <<signalcomp, viewtime, prefiltertime, pagetime, viewbuf, call, filepos, msgbox, dec, mf>>

ZSave ==
  /\ zaux.phase = "run"
  /\ zf' = zratio_filter_save_buf(zf)
  /\ zaux' = [zaux EXCEPT !.phase = "saved", !.mark = zaux.pos, !.at_save = RunningState(zf),
                          !.returned = <<>>, !.resets = 0]
  /\ UNCHANGED <<signalcomp, viewtime, prefiltertime, pagetime, viewbuf, call, filepos, msgbox, dec, mf>>

ZReset ==
  /\ zaux.phase = "saved"
  /\ zaux.resets = 0
  /\ zf' = reset_zratio_filter(zf)
  /\ zaux' = [zaux EXCEPT !.resets = 1]
  /\ UNCHANGED <<signalcomp, viewtime, prefiltertime, pagetime, viewbuf, call, filepos, msgbox, dec, mf>>

\* the restore; the stream is then replayed from the position of the save
ZRestore ==
  /\ zaux.phase = "saved"
  /\ zf' = zratio_filter_restore_buf(zf)
  /\ zaux' = [zaux EXCEPT !.phase = "replay", !.pos = zaux.mark]
  /\ UNCHANGED <<signalcomp, viewtime, prefiltertime, pagetime, viewbuf, call, filepos, msgbox, dec, mf>>

NextZ == (\E n \in ZBursts : ZRun(n)) \/ ZSave \/ ZReset \/ ZRestore

SpecZ == InitZ /\ [][NextZ]_vars

-----------------------------------------------------------------------------
(* Navigation events delivered while a call is blocked: QMessageBox::critical *)
(* runs an event loop of its own until the box is dismissed, and             *)
(* setup_viewbuf has no test at its entry (lines 31-62).                     *)

ReenterMontages == { <<RawComp1>>, <<LowpassComp2, RawComp1>> }

ReenterViews ==
  { <<0, 0, 10000000>>, <<0, 0, 45000000>>, <<45500000, 59500000, 1000000>> }

\* <<what malloc'ed memory holds, ordinal of the fread that fails (0: none)>>
ReenterFaults == { <<85, 0>>, <<170, 1>> }

InitReenter ==
  /\ signalcomp \in ReenterMontages
  /\ viewtime = [f \in Files |-> 0]
  /\ prefiltertime = [f \in Files |-> 0]
  /\ pagetime = 10000000
  /\ viewbuf = <<>>
  /\ call = NoCall
  /\ dec = <<>>
  /\ mf = <<>>
  /\ filepos = [f \in Files |-> edfheaderlist[f].hdrsize]
  /\ msgbox = <<>>
  /\ zf = <<>>
  /\ zaux = <<>>

\* a navigation event: setup_viewbuf is entered, whether or not earlier calls
\* wait in a message box
NavigateModal ==
  /\ Len(msgbox) < MaxDepth
  /\ \E w \in ReenterViews, x \in ReenterFaults :
        SetupViewbuf([f \in Files |-> w[f]], w[3], x[1], x[2], 0, TRUE)

\* the innermost message box is dismissed: its call runs on to its return
\* (remove_all_signals, and the clamp of the page time after a memory error)
Dismiss ==
  /\ msgbox # <<>>
  /\ msgbox' = SubSeq(msgbox, 1, Len(msgbox) - 1)
  /\ signalcomp' = remove_all_signals(signalcomp)
  /\ pagetime' = IF msgbox[Len(msgbox)].clamp /\ pagetime > TIME_FIXP_SCALING
                 THEN TIME_FIXP_SCALING ELSE pagetime
  /\ UNCHANGED <<viewtime, prefiltertime, viewbuf, call, filepos, zf, zaux, dec, mf>>

NextReenter == NavigateModal \/ Dismiss

SpecReenter == InitReenter /\ [][NextReenter]_vars

-----------------------------------------------------------------------------
(* Construction of the Z-ratio filter: zf is what create_zratio_filter     *)
(* returned (<<>> for NULL), zaux its arguments and the heap it left.      *)

\* samples per record, record durations in ticks, and the allocation that
\* fails (0: none)
CreateSmpPerRecord == {1, 9, 10, 11, 50, 99, 100}
CreateDurations == {1000000, 5000000, 10000000}
CreateNomem == 0..6

InitCreate ==
  /\ signalcomp = <<>>
  /\ viewtime = [f \in Files |-> 0]
  /\ prefiltertime = [f \in Files |-> 0]
  /\ pagetime = 10000000
  /\ viewbuf = <<>>
  /\ call = NoCall
  /\ dec = <<>>
  /\ mf = <<>>
  /\ filepos = [f \in Files |-> edfheaderlist[f].hdrsize]
  /\ msgbox = <<>>
  /\ zf = <<>>
  /\ zaux = [phase |-> "none", smp_per_record |-> 0, long_data_record_duration |-> 0,
             nomem |-> 0, heap |-> {}]

CreateZ ==
  /\ zf = <<>>
  /\ \E smp \in CreateSmpPerRecord, dur \in CreateDurations, nomem \in CreateNomem :
        \E r \in {create_zratio_filter_mem(smp, dur, nomem)} :
           /\ zf' = r.settings
           /\ zaux' = [phase |-> "created", smp_per_record |-> smp, long_data_record_duration |-> dur,
                       nomem |-> nomem, heap |-> r.heap]
  /\ UNCHANGED <<signalcomp, viewtime, prefiltertime, pagetime, viewbuf, call, filepos, msgbox, dec, mf>>

FreeZ ==
  /\ zf # <<>>
  /\ zf' = <<>>
  /\ zaux' = [zaux EXCEPT !.phase = "freed", !.heap = free_zratio_filter(@)]
  /\ UNCHANGED <<signalcomp, viewtime, prefiltertime, pagetime, viewbuf, call, filepos, msgbox, dec, mf>>

NextCreate == CreateZ \/ FreeZ

SpecCreate == InitCreate /\ [][NextCreate]_vars

-----------------------------------------------------------------------------
(* One Z-ratio filter under calls in any order: run_zratio_filter (one call  *)
(* or a burst of calls), zratio_filter_save_buf, reset_zratio_filter and     *)
(* zratio_filter_restore_buf.                                                *)

ZMaxSingles == 3     \* steps of one run_zratio_filter call
ZMaxOps == 3         \* calls of save, reset and restore

ZCallBursts == {1, 66}

InitZCalls ==
  /\ signalcomp = <<>>
  /\ viewtime = [f \in Files |-> 0]
  /\ prefiltertime = [f \in Files |-> 0]
  /\ pagetime = 10000000
  /\ viewbuf = <<>>
  /\ call = NoCall
  /\ filepos = [f \in Files |-> edfheaderlist[f].hdrsize]
  /\ msgbox = <<>>
  /\ dec = <<>>
  /\ mf = <<>>
  /\ zf = create_zratio_filter(edfheaderlist[1].edfparam[1].smp_per_record,
                               edfheaderlist[1].long_data_record_duration)[1]
  \* pos: calls of run_zratio_filter so far; ret, prev: what the last call
  \* and the call before it returned; completed: the last call filled the
  \* block; between: a reset or a restore came between the two calls;
  \* touched: a reset or a restore came after the last call
  /\ zaux = [pos |-> 0, singles |-> 0, ops |-> 0, ret |-> <<>>, prev |-> <<>>,
             completed |-> FALSE, between |-> FALSE, touched |-> FALSE, last |-> "create"]

\* n calls of run_zratio_filter on the next samples of the stream
ZCalls(n) ==
  /\ zaux.pos + n <= MaxSamples
  /\ n = 1 => zaux.singles < ZMaxSingles
  /\ \E z1 \in {ZFeed(zf, zaux.pos, zaux.pos + n - 1)} :
     \E z2 \in {run_zratio_filter(ZInput(zaux.pos + n - 1), z1)} :
        /\ zf' = z2
        /\ zaux' = [zaux EXCEPT !.pos = @ + n,
                                !.singles = IF n = 1 THEN @ + 1 ELSE @,
                                !.prev = IF n = 1 THEN zaux.ret ELSE <<zratio_output(z1)>>,
                                !.ret = <<zratio_output(z2)>>,
                                !.completed = (z1.smpls_in_inputbuf + 1 >= z1.dftblocksize),
                                !.between = IF n = 1 THEN zaux.touched ELSE FALSE,
                                !.touched = FALSE,
                                !.last = "run"]
  /\ UNCHANGED <<signalcomp, viewtime, prefiltertime, pagetime, viewbuf, call, filepos, msgbox, dec, mf>>

ZSaveCall ==
  /\ zaux.ops < ZMaxOps
  /\ zf' = zratio_filter_save_buf(zf)
  /\ zaux' = [zaux EXCEPT !.ops = @ + 1, !.last = "save"]
  /\ UNCHANGED <<signalcomp, viewtime, prefiltertime, pagetime, viewbuf, call, filepos, msgbox, dec, mf>>

ZResetCall ==
  /\ zaux.ops < ZMaxOps
  /\ zf' = reset_zratio_filter(zf)
  /\ zaux' = [zaux EXCEPT !.ops = @ + 1, !.touched = TRUE, !.last = "reset"]
  /\ UNCHANGED <<signalcomp, viewtime, prefiltertime, pagetime, viewbuf, call, filepos, msgbox, dec, mf>>

ZRestoreCall ==
  /\ zaux.ops < ZMaxOps
  /\ zf' = zratio_filter_restore_buf(zf)
  /\ zaux' = [zaux EXCEPT !.ops = @ + 1, !.touched = TRUE, !.last = "restore"]
  /\ UNCHANGED <<signalcomp, viewtime, prefiltertime, pagetime, viewbuf, call, filepos, msgbox, dec, mf>>

NextZCalls == (\E n \in ZCallBursts : ZCalls(n)) \/ ZSaveCall \/ ZResetCall \/ ZRestoreCall

SpecZCalls == InitZCalls /\ [][NextZCalls]_vars

-----------------------------------------------------------------------------
(* One math function: create_math_func, run_math_func, free_math_func.       *)

MathMaxCalls == 6    \* run_math_func calls on one instance

MathFuncCodes == -1 .. (MATH_MAX_FUNCS + 1)
MathPkSmpls == {-1, 0, 1, 2, 3}
MathValues == {-3, 0, 2, 5}

\* st: the instance (<<>> is NULL); func_f, pk_smpls: the arguments of the
\* last create_math_func; calls: run_math_func calls on the instance; val,
\* ret: the argument and the result of the last call; held: the calls in a
\* row, up to the last one, that returned another value than their argument
NoMathFunc ==
  [st |-> <<>>, created |-> FALSE, func_f |-> 0, pk_smpls |-> 0, calls |-> 0, val |-> 0, ret |-> 0, held |-> 0]

InitMath ==
  /\ signalcomp = <<>>
  /\ viewtime = [f \in Files |-> 0]
  /\ prefiltertime = [f \in Files |-> 0]
  /\ pagetime = 10000000
  /\ viewbuf = <<>>
  /\ call = NoCall
  /\ filepos = [f \in Files |-> edfheaderlist[f].hdrsize]
  /\ msgbox = <<>>
  /\ zf = <<>>
  /\ zaux = <<>>
  /\ dec = <<>>
  /\ mf = NoMathFunc

MathCreate ==
  /\ mf.st = <<>>
  /\ \E func_f \in MathFuncCodes, pk_smpls \in MathPkSmpls :
        mf' = [NoMathFunc EXCEPT !.st = create_math_func(func_f, pk_smpls), !.created = TRUE,
                                 !.func_f = func_f, !.pk_smpls = pk_smpls]
  /\ UNCHANGED <<signalcomp, viewtime, prefiltertime, pagetime, viewbuf, call, filepos, msgbox, zf, zaux, dec>>

MathRun ==
  /\ mf.st # <<>>
  /\ mf.calls < MathMaxCalls
  /\ \E val \in MathValues :
     \E r \in {run_math_func(val, mf.st[1])} :
        mf' = [mf EXCEPT !.st = <<r[2]>>, !.calls = @ + 1, !.val = val, !.ret = r[1],
                         !.held = IF r[1] # val THEN @ + 1 ELSE 0]
  /\ UNCHANGED <<signalcomp, viewtime, prefiltertime, pagetime, viewbuf, call, filepos, msgbox, zf, zaux, dec>>

MathFree ==
  /\ mf.st # <<>>
  /\ mf' = [mf EXCEPT !.st = <<>>]
  /\ UNCHANGED <<signalcomp, viewtime, prefiltertime, pagetime, viewbuf, call, filepos, msgbox, zf, zaux, dec>>

NextMath == MathCreate \/ MathRun \/ MathFree

SpecMath == InitMath /\ [][NextMath]_vars

-----------------------------------------------------------------------------
(* The decoding of one sample (lines 397-435) on bytes of every kind: the    *)
(* recordings above hold few of the byte values.                             *)

DecodeBytes == {0, 1, 127, 128, 129, 255}

DecodeComps == {RawComp1, DiffComp2}

\* a composition, one of its constituent signals, a sample of the first two
\* records and the bytes of the sample
DecodeInputs ==
  UNION { UNION { { [bdf |-> hdr(c).bdf, edf |-> hdr(c).edf, comp |-> c, k |-> k, s |-> smp, b |-> b,
                     decoded |-> FALSE, d_temp |-> 0]
                    : smp \in 0..(2 * hdr(c).edfparam[c.edfsignal[k]].smp_per_record - 1),
                      b \in [1..BytesPerSample(c) -> DecodeBytes] }
                  : k \in DOMAIN c.edfsignal }
          : c \in DecodeComps }

InitDecode ==
  /\ signalcomp = <<>>
  /\ viewtime = [f \in Files |-> 0]
  /\ prefiltertime = [f \in Files |-> 0]
  /\ pagetime = 10000000
  /\ viewbuf = <<>>
  /\ call = NoCall
  /\ filepos = [f \in Files |-> edfheaderlist[f].hdrsize]
  /\ msgbox = <<>>
  /\ zf = <<>>
  /\ zaux = <<>>
  /\ dec \in DecodeInputs
  /\ mf = <<>>

\* two records of the composition in the buffer, the bytes dec.b at sample
\* dec.s of constituent signal dec.k and the byte 85 elsewhere; the sample
\* is decoded
Decode ==
  /\ ~dec.decoded
  /\ \E a \in {SampleAddress(dec.comp, dec.k, dec.s)} :
     \E buf \in {[n \in 1..(2 * hdr(dec.comp).recordsize) |->
                    IF n - 1 - a \in 0..(BytesPerSample(dec.comp) - 1) THEN dec.b[n - a] ELSE 85]} :
        dec' = [dec EXCEPT !.decoded = TRUE,
                           !.d_temp = DecodeDigital(dec.comp, dec.k, dec.s, buf, 170)]
  /\ UNCHANGED <<signalcomp, viewtime, prefiltertime, pagetime, viewbuf, call, filepos, msgbox, zf, zaux, mf>>

NextDecode == Decode

SpecDecode == InitDecode /\ [][NextDecode]_vars

-----------------------------------------------------------------------------
(* Properties *)

CallEnded == call.status # "none"
CallOk == call.status = "ok"

\* the compositions that are the first of the list on their recording
FirstOnFile(comps) == {i \in DOMAIN comps : EarlierOnFile(comps, i, 1) = 0}

\* the warm-up start record index the call computed for composition i (line 287)
PrefilterStartRecord(i) == CDiv(signalcomp[i].prefilter_starttime, hdr(signalcomp[i]).long_data_record_duration)

\* the prefiltertime the clamp prescribes for recording f
PrescribedPrefiltertime(f) ==
  IF f \in call.stateful_files
  THEN (IF viewtime[f] < 0 THEN 0 ELSE Min(FracTicks(call.pre_time), viewtime[f]))
  ELSE 0

PrefiltertimeClamped ==
  \A f \in Files :
     /\ 0 <= prefiltertime[f]
     /\ prefiltertime[f] <= Max(viewtime[f], 0)
     /\ prefiltertime[f] = PrescribedPrefiltertime(f)

\* C1, as stated: after setup_viewbuf every recording has
\* 0 <= prefiltertime <= max(viewtime, 0), with min(pre_time, viewtime) (0 for
\* a negative view time) on a recording with a stateful composition and 0
\* elsewhere, and the warm-up start record index is never negative.
C1_StartRecordNeverNegative ==
  CallEnded =>
    /\ PrefiltertimeClamped
    /\ (CallOk /\ call.hasprefilter) =>
          \A i \in FirstOnFile(signalcomp) : PrefilterStartRecord(i) >= 0

\* C1, amended: the bounds and values of prefiltertime hold as stated; the
\* warm-up start record index is non-negative for every recording whose view
\* time is not negative, and a recording whose view time is negative
\* (where the index is negative) has no warm-up records.
C1_PrefiltertimeInvariant ==
  CallEnded =>
    /\ PrefiltertimeClamped
    /\ (CallOk /\ call.hasprefilter) =>
          \A i \in FirstOnFile(signalcomp) :
             /\ viewtime[signalcomp[i].filenum] >= 0 => PrefilterStartRecord(i) >= 0
             /\ viewtime[signalcomp[i].filenum] < 0 =>
                   \A r \in DOMAIN call.prelayout :
                      call.prelayout[r].filenum = signalcomp[i].filenum => call.prelayout[r].viewbufsize = 0

\* a call clamped the warm-up of a recording to its (positive) view time
C1_Witness ==
  /\ CallOk
  /\ \E f \in call.stateful_files :
        /\ viewtime[f] > 0
        /\ FracTicks(call.pre_time) > viewtime[f]
        /\ prefiltertime[f] = viewtime[f]

-----------------------------------------------------------------------------

FracEq(p, q) == p[1] * q[2] = q[1] * p[2]

\* the per-kind warm-up minima of the stages of composition c, in seconds
StageMinima(c) ==
  UNION { {<<c.filter[k].cutoff_frequency[2], c.filter[k].cutoff_frequency[1]>> : k \in DOMAIN c.filter},
          IF c.spike_filter # <<>> THEN {<<5, 1>>} ELSE {},
          IF c.plif_ecg_filter # <<>> THEN {<<2, 1>>} ELSE {},
          IF c.plif_eeg_filter # <<>> THEN {<<1, 1>>} ELSE {},
          {<<c.ravg_filter[k].size + 3, edfparam_0(c).sf_f>> : k \in DOMAIN c.ravg_filter},
          {<<c.fir_filter[k].size + 3, edfparam_0(c).sf_f>> : k \in DOMAIN c.fir_filter},
          IF c.ecg_filter # <<>> THEN {<<10, 1>>} ELSE {},
          IF c.zratio_filter # <<>> THEN {<<4, 1>>} ELSE {},
          {<<2 * c.fidfilter[k].order * c.fidfilter[k].freq[2], c.fidfilter[k].freq[1]>> : k \in DOMAIN c.fidfilter} }

FrameMinima == UNION {StageMinima(signalcomp[i]) : i \in DOMAIN signalcomp}

\* C2: the pre_time a call computed is the maximum of the per-kind minima
\* over every stage of every composition, and 0 when no composition has a
\* stateful filter.
C2_PreTimeIsMaximum ==
  CallOk =>
    IF FrameMinima = {} THEN FracEq(call.pre_time, <<0, 1>>) /\ ~call.hasprefilter
    ELSE /\ \E r \in FrameMinima : FracEq(call.pre_time, r)
         /\ \A r \in FrameMinima : ~FracLess(call.pre_time, r)

\* a call on two stateful compositions whose stages have at least five
\* different minima, the largest not in the first composition
C2_Witness ==
  /\ CallOk
  /\ Len(signalcomp) >= 2
  /\ Cardinality(FrameMinima) >= 5
  /\ \E r \in StageMinima(signalcomp[2]) : FracEq(call.pre_time, r)
  /\ \A r \in StageMinima(signalcomp[1]) : FracLess(r, call.pre_time)

-----------------------------------------------------------------------------

\* the start of the warm-up of the last call on the recording of composition c:
\* the first record of the warm-up range, in ticks from the recording start
WarmupStart(c) ==
  CDiv(viewtime[c.filenum] - prefiltertime[c.filenum], hdr(c).long_data_record_duration)
    * hdr(c).long_data_record_duration

\* the recording time of warm-up sample s of composition c, in ticks
WarmupSampleTime(c, s) ==
  WarmupStart(c) + (s * hdr(c).long_data_record_duration) \div edfparam_0(c).smp_per_record

\* C3: for every composition with a Z-ratio filter that was warmed up, the
\* warm-up sample at which the filter is reset lies at a recording time that is
\* a multiple of 2 s (20,000,000 ticks) from the recording start, whether or not
\* the composition shares its recording with an earlier one.
C3_ResetOnEpochBoundary ==
  CallOk =>
    \A i \in DOMAIN signalcomp :
       (signalcomp[i].zratio_filter # <<>> /\ signalcomp[i].samples_in_prefilterbuf > 0) =>
          WarmupSampleTime(signalcomp[i], signalcomp[i].prefilter_reset_sample)
             % (ZRATIO_EPOCH_LEN * TIME_FIXP_SCALING) = 0

-----------------------------------------------------------------------------

\* what the first pass returned at stream position p, when it stopped there
ReturnedAt(p) == {r[2] : r \in {q \in {zaux.returned[k] : k \in DOMAIN zaux.returned} : q[1] = p}}

\* C4: after zratio_filter_save_buf, any number of run_zratio_filter calls
\* (and optionally a reset), and zratio_filter_restore_buf, the running state
\* (sample counter, ratio value, buffered samples of the current block) is the
\* one at the save, and replaying the inputs returns what the first pass
\* returned.
C4_RestoreRoundTrip ==
  zaux # <<>> /\ zaux.phase = "replay" =>
     /\ zaux.pos = zaux.mark => RunningState(zf) = zaux.at_save
     /\ zaux.resets = 0 => \A v \in ReturnedAt(zaux.pos) : zratio_output(zf) = v

\* the same, for a save taken when at most dftblocksize / sizeof(double)
\* samples were buffered
C4_RoundTripOfShortBlock ==
  (zaux # <<>> /\ zaux.phase = "replay"
     /\ zaux.at_save.smpls_in_inputbuf <= zf.dftblocksize \div SIZEOF_DOUBLE) =>
     /\ zaux.pos = zaux.mark => RunningState(zf) = zaux.at_save
     /\ zaux.resets = 0 => \A v \in ReturnedAt(zaux.pos) : zratio_output(zf) = v

-----------------------------------------------------------------------------

HasPeakHold(funcs) == \E k \in DOMAIN funcs : funcs[k].func = MATH_FUNC_PK_HOLD

\* the kinds of stateful instances of composition c that the warm-up loop runs
WarmedKinds(c) ==
  UNION { IF c.spike_filter # <<>> THEN {"spike"} ELSE {},
          IF Len(c.filter) > 0 THEN {"filter"} ELSE {},
          IF Len(c.ravg_filter) > 0 THEN {"ravg"} ELSE {},
          IF Len(c.fidfilter) > 0 THEN {"fid"} ELSE {},
          IF Len(c.fir_filter) > 0 THEN {"fir"} ELSE {},
          IF c.plif_ecg_filter # <<>> THEN {"plif_ecg"} ELSE {},
          IF c.plif_eeg_filter # <<>> THEN {"plif_eeg"} ELSE {},
          IF c.ecg_filter # <<>> THEN {"ecg"} ELSE {},
          IF c.zratio_filter # <<>> THEN {"zratio"} ELSE {},
          IF HasPeakHold(c.math_func_before) THEN {"math_func_before"} ELSE {},
          IF HasPeakHold(c.math_func_after) THEN {"math_func_after"} ELSE {} }

\* composition c was warmed up by the last call
Warmed(c) == HasStatefulFilter(c) /\ c.samples_in_prefilterbuf > 0

\* the saved copies of composition c hold the state its instances have after
\* the last warm-up sample
SavedIsCurrent(c) ==
  /\ \A k \in DOMAIN c.spike_filter : c.spike_filter[k].bu = c.spike_filter[k].st
  /\ \A k \in DOMAIN c.filter : c.filterpreset_a[k] = c.filter[k].old_input
                                /\ c.filterpreset_b[k] = c.filter[k].old_output
  /\ \A k \in DOMAIN c.ravg_filter : c.ravg_filter[k].bu = c.ravg_filter[k].st
  /\ \A k \in DOMAIN c.fidfilter : c.fidfilter[k].buf2 = c.fidfilter[k].buf
  /\ \A k \in DOMAIN c.fir_filter : c.fir_filter[k].bu = c.fir_filter[k].st
  /\ c.plif_ecg_filter_sav = c.plif_ecg_filter
  /\ c.plif_eeg_filter_sav = c.plif_eeg_filter
  /\ \A k \in DOMAIN c.ecg_filter : c.ecg_filter[k].bu = c.ecg_filter[k].st
  /\ \A k \in DOMAIN c.zratio_filter :
        /\ c.zratio_filter[k].smpls_in_inputbuf_bu = c.zratio_filter[k].smpls_in_inputbuf
        /\ c.zratio_filter[k].zratio_value_bu = c.zratio_filter[k].zratio_value

\* C5: at the end of a warm-up in which a composition processed at least one
\* sample, a snapshot was taken of every stateful instance that the warm-up
\* ran (peak-hold math functions included), and it holds the state after the
\* last warm-up sample.
C5_EveryWarmedInstanceSaved ==
  CallOk =>
    \A i \in DOMAIN signalcomp :
       Warmed(signalcomp[i]) =>
          /\ WarmedKinds(signalcomp[i]) \subseteq call.snapshots[i]
          /\ SavedIsCurrent(signalcomp[i])

\* the same for the kinds other than the math functions
C5_FilterKindsSaved ==
  CallOk =>
    \A i \in DOMAIN signalcomp :
       Warmed(signalcomp[i]) =>
          /\ (WarmedKinds(signalcomp[i]) \ {"math_func_before", "math_func_after"}) \subseteq call.snapshots[i]
          /\ SavedIsCurrent(signalcomp[i])

-----------------------------------------------------------------------------

\* the history offset (start of the warm-up window) of recording f
HistoryOffset(vt, pft, f) == vt[f] - pft[f]

\* C6: when a call starts its warm-up from a history offset other than the
\* previous call's, every stateful instance of every warmed composition is
\* reset first: the filter state saved at the end of the warm-up is the one
\* the same call saves when it starts from instances as they were created.
C6_WarmupStartsFromReset ==
  [][ ( /\ call.status = "ok"
        /\ call'.status = "ok"
        /\ \E f \in call'.stateful_files :
              HistoryOffset(viewtime', prefiltertime', f) # HistoryOffset(viewtime, prefiltertime, f) )
      => \A i \in DOMAIN signalcomp' :
            Warmed(signalcomp'[i]) => SavedState(signalcomp'[i]) = call'.fresh[i] ]_vars

-----------------------------------------------------------------------------

\* the per-composition bookkeeping of the visible window
Bookkeeping(c) ==
  [viewbufoffset |-> c.viewbufoffset, records_in_viewbuf |-> c.records_in_viewbuf,
   samples_on_screen |-> c.samples_on_screen, sample_start |-> c.sample_start,
   sample_stop |-> c.sample_stop, sample_timeoffset |-> c.sample_timeoffset]

\* C7: with no stateful filter in any composition, a call that repeats the
\* view times and the page time of the call before it leaves the same bytes in
\* the view buffer and the same bookkeeping in every composition, whatever
\* the newly allocated buffer held.
C7_RepeatedCallIsIdentical ==
  [][ ( /\ call.status = "ok"
        /\ call'.status = "ok"
        /\ ~call'.hasprefilter
        /\ viewtime' = viewtime
        /\ pagetime' = pagetime )
      => /\ viewbuf' = viewbuf
         /\ DOMAIN signalcomp' = DOMAIN signalcomp
         /\ \A i \in DOMAIN signalcomp : Bookkeeping(signalcomp'[i]) = Bookkeeping(signalcomp[i]) ]_vars

\* a repeated call on two recordings without stateful filter, one of them
\* viewed over its end
C7_Witness ==
  /\ CallOk
  /\ call.again
  /\ Len(signalcomp) >= 2
  /\ \E i \in DOMAIN signalcomp : signalcomp[i].sample_stop < signalcomp[i].samples_on_screen
  /\ \E b \in DOMAIN viewbuf : viewbuf[b] = 0
  /\ \E b \in DOMAIN viewbuf : viewbuf[b] # 0

-----------------------------------------------------------------------------

\* the size of the region of recording f in layout L (0 when no composition refers to f)
RegionSizeOf(L, f) ==
  IF \E i \in DOMAIN L : L[i].filenum = f
  THEN L[CHOOSE i \in DOMAIN L : L[i].filenum = f].viewbufsize
  ELSE 0

\* the sum of the region sizes of the recordings S in layout L
RECURSIVE RegionSizeSum(_, _)
RegionSizeSum(L, S) ==
  IF S = {} THEN 0
  ELSE LET f == CHOOSE x \in S : TRUE IN RegionSizeOf(L, f) + RegionSizeSum(L, S \ {f})

\* layout L (one region per composition) in a buffer of total bytes
LayoutShared(L, total) ==
  /\ \A i, j \in DOMAIN L :
        IF L[i].filenum = L[j].filenum
        THEN /\ L[i].viewbufoffset = L[j].viewbufoffset
             /\ L[i].records_in_viewbuf = L[j].records_in_viewbuf
             /\ L[i].viewbufsize = L[j].viewbufsize
        ELSE \/ L[i].viewbufoffset + L[i].viewbufsize <= L[j].viewbufoffset
             \/ L[j].viewbufoffset + L[j].viewbufsize <= L[i].viewbufoffset
  /\ \A i \in DOMAIN L : L[i].viewbufoffset >= 0 /\ L[i].viewbufoffset + L[i].viewbufsize <= total
  /\ total = RegionSizeSum(L, Files)

VisibleLayoutOfCall == [i \in DOMAIN signalcomp |-> Region(signalcomp[i])]

\* C8: after the warm-up layout pass and after the visible layout pass,
\* compositions on the same file handle have equal viewbufoffset,
\* records_in_viewbuf and viewbufsize, compositions on different file handles
\* have disjoint regions, every region lies inside the allocated buffer, and the
\* buffer size is the sum of the sizes of the distinct recordings.
C8_RegionsShared ==
  /\ (CallEnded /\ call.hasprefilter) => LayoutShared(call.prelayout, call.pretotal)
  /\ CallOk => /\ LayoutShared(VisibleLayoutOfCall, call.vistotal)
               /\ Len(viewbuf) = call.vistotal

\* a call on two compositions of one recording, with a warm-up region and a
\* visible region that are not empty
C8_Witness ==
  /\ CallOk
  /\ call.hasprefilter
  /\ Len(signalcomp) >= 2
  /\ signalcomp[1].filenum = signalcomp[2].filenum
  /\ call.prelayout[2].viewbufsize > 0
  /\ call.pretotal = call.prelayout[2].viewbufsize
  /\ signalcomp[2].viewbufsize > 0

\* a call on compositions of two recordings, both regions not empty
C8_WitnessTwoFiles ==
  /\ CallOk
  /\ call.hasprefilter
  /\ Len(signalcomp) >= 2
  /\ signalcomp[1].filenum # signalcomp[2].filenum
  /\ call.prelayout[1].viewbufsize > 0
  /\ signalcomp[1].viewbufsize > 0 /\ signalcomp[2].viewbufsize > 0

-----------------------------------------------------------------------------

ReferencedFiles == {signalcomp[i].filenum : i \in DOMAIN signalcomp}

\* the reads (fread calls) of the last call on recording f in the given phase
ReadsOf(f, phase) ==
  {n \in DOMAIN call.reads : call.reads[n].file = f /\ call.reads[n].phase = phase}

\* the first record of the visible window of recording f (lines 706-713)
VisibleStartRecord(f) ==
  IF viewtime[f] >= 0 THEN viewtime[f] \div edfheaderlist[f].long_data_record_duration ELSE 0

\* the first record of the warm-up window of recording f
WarmupStartRecord(f) ==
  CDiv(viewtime[f] - prefiltertime[f], edfheaderlist[f].long_data_record_duration)

\* C9, as stated: a call issues exactly one read for the byte range of every
\* recording that compositions refer to (one for the warm-up range when the
\* call warms up, one for the visible range), however many compositions refer
\* to it.
C9_ExactlyOneRead ==
  CallOk =>
    \A f \in ReferencedFiles :
       /\ Cardinality(ReadsOf(f, "visible")) = 1
       /\ call.hasprefilter => Cardinality(ReadsOf(f, "prefilter")) = 1

\* C9, amended: per recording a call issues at most one read for the warm-up
\* range and at most one for the visible range, however many compositions
\* refer to it: exactly one for the visible range when the view starts
\* before the end of the recording, exactly one for the warm-up range when the
\* warm-up region is not empty and starts before the end, and none otherwise.
\* The read starts at the first record of the range.
C9_OneReadPerRange ==
  CallOk =>
    /\ \A n \in DOMAIN call.reads : call.reads[n].file \in ReferencedFiles
    /\ \A f \in ReferencedFiles :
          /\ Cardinality(ReadsOf(f, "visible")) =
                (IF VisibleStartRecord(f) < edfheaderlist[f].datarecords THEN 1 ELSE 0)
          /\ \A n \in ReadsOf(f, "visible") :
                call.reads[n].fileoff =
                   edfheaderlist[f].hdrsize + VisibleStartRecord(f) * edfheaderlist[f].recordsize
          /\ Cardinality(ReadsOf(f, "prefilter")) =
                (IF /\ call.hasprefilter
                    /\ RegionSizeOf(call.prelayout, f) > 0
                    /\ WarmupStartRecord(f) < edfheaderlist[f].datarecords
                 THEN 1 ELSE 0)
          /\ \A n \in ReadsOf(f, "prefilter") :
                call.reads[n].fileoff =
                   edfheaderlist[f].hdrsize + WarmupStartRecord(f) * edfheaderlist[f].recordsize

\* a call on two compositions of one recording, one of them with a filter: one
\* read for the warm-up range and one for the visible range
C9_Witness ==
  /\ CallOk
  /\ call.hasprefilter
  /\ Len(signalcomp) >= 2
  /\ signalcomp[1].filenum = signalcomp[2].filenum
  /\ Cardinality(ReadsOf(signalcomp[1].filenum, "prefilter")) = 1
  /\ Cardinality(ReadsOf(signalcomp[1].filenum, "visible")) = 1
  /\ Len(call.reads) = 2

-----------------------------------------------------------------------------

\* the records of the recording of composition c from the first visible one on
RecordsLeft(c) == hdr(c).datarecords - VisibleStartRecord(c.filenum)

\* byte b (0-based) of the region of composition c
RegionByte(c, b) == viewbuf[c.viewbufoffset + b + 1]

\* the bytes 0 .. n-1 of the region of c are the bytes of the file from the
\* first visible record on
InRangeBytesFromFile(c, n) ==
  \A b \in 0..(n - 1) :
     RegionByte(c, b) = FileByte(c.filenum, hdr(c).hdrsize + VisibleStartRecord(c.filenum) * hdr(c).recordsize + b)

\* C10: when the visible record range of a recording runs past its last
\* record, exactly the bytes after the in-range records are zero, the in-range
\* bytes are those of the file (none of which is zero) and sample_stop is the
\* last valid in-range sample; when the view starts at or after the end the
\* whole region is zero and sample_stop = sample_start; the end of the file
\* is no error: a call reports a read error only when an fread fails.
C10_EndOfFile ==
  /\ (CallEnded /\ call.failat = 0) => call.status # "read_error"
  /\ CallOk =>
       \A i \in DOMAIN signalcomp :
          LET c == signalcomp[i]
              regionsize == c.records_in_viewbuf * hdr(c).recordsize
              left == RecordsLeft(c)
          IN /\ (0 < left /\ left < c.records_in_viewbuf) =>
                   /\ InRangeBytesFromFile(c, left * hdr(c).recordsize)
                   /\ \A b \in 0..(regionsize - 1) :
                         (RegionByte(c, b) = 0) <=> (b >= left * hdr(c).recordsize)
                   /\ c.sample_stop = c.sample_start + left * edfparam_0(c).smp_per_record - c.sample_timeoffset
             /\ left <= 0 =>
                   /\ \A b \in 0..(regionsize - 1) : RegionByte(c, b) = 0
                   /\ c.sample_stop = c.sample_start

\* a view that runs over the end of a recording: fewer valid samples than the page asks for
C10_Witness ==
  /\ CallOk
  /\ \E i \in DOMAIN signalcomp :
        /\ 0 < RecordsLeft(signalcomp[i])
        /\ RecordsLeft(signalcomp[i]) < signalcomp[i].records_in_viewbuf
        /\ signalcomp[i].sample_stop < signalcomp[i].sample_start + signalcomp[i].samples_on_screen
        /\ signalcomp[i].sample_stop > signalcomp[i].sample_start

\* a view that starts after the end of a recording
C10_WitnessPastEnd ==
  /\ CallOk
  /\ \E i \in DOMAIN signalcomp :
        /\ RecordsLeft(signalcomp[i]) <= 0
        /\ signalcomp[i].records_in_viewbuf > 0
        /\ Len(call.reads) = 0

-----------------------------------------------------------------------------

\* the reads of the last call on recording f start at or after the end of the
\* header, and the read for the visible window starts at record 0
ReadsFromRecordZero(f) ==
  /\ \A n \in DOMAIN call.reads :
        call.reads[n].file = f => call.reads[n].fileoff >= edfheaderlist[f].hdrsize
  /\ \A n \in ReadsOf(f, "visible") : call.reads[n].fileoff = edfheaderlist[f].hdrsize
  /\ Cardinality(ReadsOf(f, "visible")) = 1

-----------------------------------------------------------------------------

\* the call stopped at the memory limit
CallOverLimit == call.status = "memory_limit"

\* C12: a buffer that a call allocates, for the warm-up or for the visible
\* window, is smaller than the memory limit; when the total that the warm-up
\* or the visible window requires reaches the limit, the call allocates no
\* buffer and aborts, and on return the page time is at most 1 second.
C12_BufferBelowLimit ==
  CallEnded =>
    /\ CallOverLimit <=> (call.pretotal >= MemoryLimit \/ call.vistotal >= MemoryLimit)
    /\ CallOverLimit =>
          /\ viewbuf = <<>>
          /\ signalcomp = <<>>
          /\ pagetime <= 10000000
          /\ \A n \in DOMAIN call.reads : call.reads[n].phase = "prefilter"
    /\ ~CallOverLimit => Len(viewbuf) < MemoryLimit
    /\ CallOk => Len(viewbuf) = call.vistotal

\* a page of 4.5 s on recording 1 needs 46 records of 30 bytes: the visible
\* window reaches the limit and the page time comes back as 1 s
C12_Witness ==
  /\ CallOverLimit
  /\ call.vistotal >= MemoryLimit
  /\ call.pretotal < MemoryLimit
  /\ pagetime = 10000000

\* the warm-up of 4.55 s for a filter of 0.1 Hz reaches the limit
C12_WitnessWarmup ==
  /\ CallOverLimit
  /\ call.hasprefilter
  /\ call.pretotal >= MemoryLimit
  /\ pagetime = 1000000

\* a call that stays below the limit with a warm-up buffer and a visible buffer
C12_WitnessAllocated ==
  /\ CallOk
  /\ call.pretotal > 1000
  /\ Len(viewbuf) > 0

-----------------------------------------------------------------------------

\* C13: when the size that a call requires reaches the memory limit, the
\* page time is clamped and the buffer is built again, once: the call then
\* either ends with a frame for a page of at most 1 second, or it reports the
\* error and leaves the list of compositions as it was (the view time is the
\* caller's, the call never assigns it).
C13_OverflowRetriedOrViewKept ==
  [][ (call'.pretotal >= MemoryLimit \/ call'.vistotal >= MemoryLimit) =>
        \/ call'.status = "ok" /\ pagetime' <= 10000000
        \/ call'.status = "memory_limit" /\ signalcomp' = signalcomp ]_vars

-----------------------------------------------------------------------------

\* the call ended in the branch of a failed fread (messages "A read error
\* occurred. 2" to "5"), which returns before the renderer
CallReadError == call.status = "read_error"

\* C14: when a read fails in a call that follows a displayed frame, the call
\* is aborted and what was displayed stays as it was: the list of compositions
\* with the saved filter state in it, and the contents of the view buffer; no
\* partly filled buffer is left.
C14_ReadFailureKeepsFrame ==
  [][ (CallOk /\ CallReadError') =>
        /\ signalcomp' = signalcomp
        /\ viewbuf' = viewbuf ]_vars

-----------------------------------------------------------------------------

\* an fread of the last call failed; an fseeko of the last call failed
ReadFailed == call.failat \in 1..Len(call.reads)
SeekFailed == call.seekfailat \in 1..Len(call.reads)

\* C15: a call in which a read comes back short or a seek fails ends in the
\* error branch, with nothing read after the failure (no retry); no call
\* completes its frame after a seek that failed.
C15_SeekAndReadFailuresAbort ==
  CallEnded =>
    /\ ReadFailed =>
          /\ CallReadError
          /\ call.failat = Len(call.reads)
          /\ call.reads[Len(call.reads)].kind = "failed"
    /\ SeekFailed =>
          /\ CallReadError
          /\ call.seekfailat = Len(call.reads)

\* a frame is completed after the seek of its visible read failed: the bytes
\* of the frame are those behind the read of the frame before
C15_FrameAfterFailedSeek ==
  /\ CallOk
  /\ SeekFailed
  /\ call.again
  /\ \E n \in DOMAIN call.reads :
        /\ call.reads[n].phase = "visible"
        /\ call.reads[n].fileoff
              # edfheaderlist[call.reads[n].file].hdrsize
                  + VisibleStartRecord(call.reads[n].file) * edfheaderlist[call.reads[n].file].recordsize

-----------------------------------------------------------------------------

\* the state of every filter instance of composition c, saved copies included
FilterState(c) ==
  [k \in {"filter", "filterpreset_a", "filterpreset_b", "spike_filter", "ravg_filter",
          "fidfilter", "fir_filter", "plif_ecg_filter", "plif_ecg_filter_sav",
          "plif_eeg_filter", "plif_eeg_filter_sav", "ecg_filter", "zratio_filter",
          "math_func_before", "math_func_after"} |-> c[k]]

\* the compositions of the list whose recording has prefilter time 0
NoWarmup(comps, pft) == {i \in DOMAIN comps : pft[comps[i].filenum] = 0}

\* C16: in a call that ends with a frame, a recording whose prefilter time is
\* 0 gets no warm-up read, and a composition on it has the filter state the
\* call found (moving averages reset, line 120), no warm-up sample and no
\* snapshot; a stateful composition whose view time is at or before the start
\* of its recording has prefilter time 0; and a call with no warm-up byte to
\* read ends with an error only for a failed visible read or a visible
\* window that reaches the memory limit.
C16_NoWarmupAtPrefiltertimeZero ==
  [][ /\ CallOk' =>
           \A i \in NoWarmup(signalcomp', prefiltertime') :
              /\ \A n \in DOMAIN call'.reads :
                    call'.reads[n].phase = "prefilter" => call'.reads[n].file # signalcomp'[i].filenum
              /\ FilterState(signalcomp'[i]) = FilterState(ResetRavgs(signalcomp)[i])
              /\ signalcomp'[i].samples_in_prefilterbuf = 0
              /\ call'.hasprefilter => call'.snapshots[i] = {}
      /\ CallOk' =>
           \A i \in DOMAIN signalcomp' :
              viewtime'[signalcomp'[i].filenum] <= 0 => prefiltertime'[signalcomp'[i].filenum] = 0
      /\ (call'.status # "none" /\ call'.pretotal = 0) =>
           /\ \A n \in DOMAIN call'.reads : call'.reads[n].phase # "prefilter"
           /\ call'.status = "read_error" => call'.failat = Len(call'.reads)
           /\ call'.status = "memory_limit" => call'.vistotal >= MemoryLimit ]_vars

\* a composition with a 0.1 Hz highpass drawn from the start of its recording:
\* the warm-up pass is on, its prefilter time is 0, the frame is built
C16_Witness ==
  /\ CallOk
  /\ call.hasprefilter
  /\ Len(signalcomp) = 1
  /\ Len(signalcomp[1].filter) = 1
  /\ signalcomp[1].filter[1].cutoff_frequency = <<1, 10>>
  /\ viewtime[1] = 0
  /\ prefiltertime[1] = 0
  /\ call.pretotal = 0
  /\ Len(viewbuf) > 0

\* a recording with no stateful filter, prefilter time 0, next to one that is
\* warmed up
C16_WitnessMixed ==
  /\ CallOk
  /\ NoWarmup(signalcomp, prefiltertime) # {}
  /\ \E i \in DOMAIN signalcomp : signalcomp[i].samples_in_prefilterbuf > 0

-----------------------------------------------------------------------------

\* the number of records, counted from record `first`, that hold a tick of
\* the closed window [from, from + page] of a recording with records of dur
\* ticks: counted record by record, not by the division of lines 568-569
RecordsToCover(first, from, page, dur) ==
  Cardinality({r \in first..(first + (page \div dur) + 2) :
                  r * dur <= from + page /\ (r + 1) * dur > from})

\* C17 as stated: after the visible layout of a completed call, every
\* composition has records_in_viewbuf = the number of records, from the start
\* record floor(view_time / record_duration) (0 when the view time is
\* negative), that the window [view_time, view_time + page_duration] needs,
\* and viewbufsize = records_in_viewbuf * recordsize.
C17_RecordsCoverWindow ==
  CallOk =>
    \A i \in DOMAIN signalcomp :
       LET c == signalcomp[i]
           f == c.filenum
       IN /\ c.records_in_viewbuf
               = RecordsToCover(VisibleStartRecord(f), viewtime[f], pagetime,
                                edfheaderlist[f].long_data_record_duration)
          /\ c.viewbufsize = c.records_in_viewbuf * edfheaderlist[f].recordsize

\* C17 as the code has it: for a view time >= 0 the count is the one stated;
\* for a negative view time it is the count of a window of the same length
\* that begins (-view_time mod record_duration) ticks into record 0, which is
\* never less than the number of records the window needs and does not drop
\* to 0 when the window ends before the recording starts. The byte budget is
\* records_in_viewbuf * recordsize in both cases.
C17_RecordsInViewbuf ==
  CallOk =>
    \A i \in DOMAIN signalcomp :
       LET c == signalcomp[i]
           f == c.filenum
           dur == edfheaderlist[f].long_data_record_duration
           needed == RecordsToCover(VisibleStartRecord(f), viewtime[f], pagetime, dur)
       IN /\ viewtime[f] >= 0 => c.records_in_viewbuf = needed
          /\ viewtime[f] < 0 =>
                /\ c.records_in_viewbuf = RecordsToCover(0, (-viewtime[f]) % dur, pagetime, dur)
                /\ c.records_in_viewbuf >= needed
          /\ c.viewbufsize = c.records_in_viewbuf * edfheaderlist[f].recordsize

\* a page of 1 s that ends 0.356 s before recording 1 starts: no record is
\* needed, 11 are counted (and read)
C17_Witness ==
  /\ CallOk
  /\ \E i \in DOMAIN signalcomp :
        /\ signalcomp[i].filenum = 1
        /\ viewtime[1] = -13560000
        /\ pagetime = 10000000
        /\ signalcomp[i].records_in_viewbuf = 11
        /\ RecordsToCover(VisibleStartRecord(1), viewtime[1], pagetime, 1000000) = 0

\* a page shorter than a record that begins in one record and ends in the
\* next: two records
C17_WitnessInside ==
  /\ CallOk
  /\ \E i \in DOMAIN signalcomp :
        /\ viewtime[signalcomp[i].filenum] > 0
        /\ pagetime < edfheaderlist[signalcomp[i].filenum].long_data_record_duration
        /\ signalcomp[i].records_in_viewbuf = 2

-----------------------------------------------------------------------------

\* composition c has exactly one first-order filter and no other stateful filter
OneFirstOrderFilter(c) ==
  /\ Len(c.filter) = 1
  /\ c.spike_filter = <<>> /\ Len(c.ravg_filter) = 0 /\ Len(c.fidfilter) = 0
  /\ Len(c.fir_filter) = 0 /\ c.plif_ecg_filter = <<>> /\ c.plif_eeg_filter = <<>>
  /\ c.ecg_filter = <<>> /\ c.zratio_filter = <<>>

\* every composition of the list has exactly one first-order filter, all of
\* the cutoff frequency of the first
OneCutoff(comps) ==
  /\ comps # <<>>
  /\ \A i \in DOMAIN comps :
        /\ OneFirstOrderFilter(comps[i])
        /\ comps[i].filter[1].cutoff_frequency = comps[1].filter[1].cutoff_frequency

\* C18 as stated: with compositions of exactly one first-order filter of
\* cutoff f = num/den Hz, the prefilter time of their recording is the least
\* whole number of ticks that is >= 10,000,000 / f, or the view time (0 for a
\* negative one) when that is less.
C18_PrefiltertimeIsCeiling ==
  (CallOk /\ OneCutoff(signalcomp)) =>
    \A i \in DOMAIN signalcomp :
       LET num == signalcomp[1].filter[1].cutoff_frequency[1]
           den == signalcomp[1].filter[1].cutoff_frequency[2]
           vt == Max(viewtime[signalcomp[i].filenum], 0)
           t == prefiltertime[signalcomp[i].filenum]
       IN IF den * TIME_FIXP_SCALING <= vt * num
          THEN (t - 1) * num < den * TIME_FIXP_SCALING /\ den * TIME_FIXP_SCALING <= t * num
          ELSE t = vt

\* C18 as the code has it: the conversion to ticks truncates, so the prefilter
\* time is the greatest whole number of ticks that is <= 10,000,000 / f, or
\* the view time (0 for a negative one) when that is less.
C18_PrefiltertimeIsTruncated ==
  (CallOk /\ OneCutoff(signalcomp)) =>
    \A i \in DOMAIN signalcomp :
       LET num == signalcomp[1].filter[1].cutoff_frequency[1]
           den == signalcomp[1].filter[1].cutoff_frequency[2]
           vt == Max(viewtime[signalcomp[i].filenum], 0)
           t == prefiltertime[signalcomp[i].filenum]
       IN IF den * TIME_FIXP_SCALING < (vt + 1) * num
          THEN t * num <= den * TIME_FIXP_SCALING /\ den * TIME_FIXP_SCALING < (t + 1) * num
          ELSE t = vt

\* a 0.3 Hz filter at view time 4.55 s: 33333333 ticks, not clamped
C18_Witness ==
  /\ CallOk
  /\ OneCutoff(signalcomp)
  /\ signalcomp[1].filter[1].cutoff_frequency = <<3, 10>>
  /\ viewtime[signalcomp[1].filenum] = 45500000
  /\ prefiltertime[signalcomp[1].filenum] = 33333333

\* the same filter at view time 0.21 s: clamped to the view time
C18_WitnessClamped ==
  /\ CallOk
  /\ OneCutoff(signalcomp)
  /\ viewtime[signalcomp[1].filenum] = 2100000
  /\ prefiltertime[signalcomp[1].filenum] = 2100000

-----------------------------------------------------------------------------

\* the arguments of the last create_zratio_filter call are rejected by one of
\* the three tests: block size below 200, sample rate below 100 Hz, frequency
\* step above 1 Hz
CreateArgsRejected ==
  LET blocksize == (zaux.smp_per_record * 20000000) \div zaux.long_data_record_duration
  IN \/ blocksize < 200
     \/ zaux.smp_per_record * 10000000 < 100 * zaux.long_data_record_duration
     \/ zaux.smp_per_record * 10000000 > blocksize * zaux.long_data_record_duration

ZratioAllocations == {"settings", "fft_inputbuf", "fft_inputbuf_bu", "fft_outputbuf", "kiss_fftbuf", "cfg"}

\* C19: create_zratio_filter returns no filter and leaves nothing allocated
\* when its arguments fail one of the three tests; a filter that it returns
\* has every buffer and the FFT plan allocated, smpls_in_inputbuf = 0 and
\* zratio_value = 0; and when it returns none, nothing stays allocated.
C19_CreateFailsOrComplete ==
  zaux.phase = "created" =>
    /\ CreateArgsRejected => zf = <<>>
    /\ zf = <<>> => zaux.heap = {}
    /\ zf # <<>> =>
          /\ zaux.heap = ZratioAllocations
          /\ zf[1].cfg
          /\ zf[1].smpls_in_inputbuf = 0
          /\ zf[1].zratio_value = 0

\* the same without the FFT plan: what the tests of lines 44-121 secure
C19_CreateChecksBuffers ==
  zaux.phase = "created" =>
    /\ CreateArgsRejected => zf = <<>>
    /\ zf = <<>> => zaux.heap = {}
    /\ zf # <<>> =>
          /\ ZratioAllocations \ {"cfg"} \subseteq zaux.heap
          /\ zf[1].smpls_in_inputbuf = 0
          /\ zf[1].zratio_value = 0
          /\ ~CreateArgsRejected

\* a filter is returned without its FFT plan
C19_FilterWithoutPlan ==
  /\ zaux.phase = "created"
  /\ zf # <<>>
  /\ ~zf[1].cfg

\* arguments rejected for the block size: 9 samples per 0.1 s record, 180 < 200
C19_Rejected ==
  /\ zaux.phase = "created"
  /\ zaux.nomem = 0
  /\ CreateArgsRejected
  /\ zf = <<>>

-----------------------------------------------------------------------------

\* C20: while a setup_viewbuf call has not completed (it waits in a message
\* box), a step that is not the completion of a waiting call, that is a call
\* that begins, changes neither the view buffer nor the compositions with
\* their filter state, nor the prefilter times, nor the file positions, and
\* does not come to wait itself: it is rejected or discarded.
C20_ReentrantCallDiscarded ==
  [][ (msgbox # <<>> /\ Len(msgbox') >= Len(msgbox)) =>
        /\ msgbox' = msgbox
        /\ signalcomp' = signalcomp
        /\ viewbuf' = viewbuf
        /\ prefiltertime' = prefiltertime
        /\ filepos' = filepos ]_vars

\* the calls interleave: the last call to begin built its frame from reads
\* and ended without error, and the rest of an earlier call, run when its
\* message box was dismissed, then emptied the list of compositions under it
C20_Interleaved ==
  /\ msgbox = <<>>
  /\ CallOk
  /\ call.reads # <<>>
  /\ viewbuf # <<>>
  /\ signalcomp = <<>>

\* a call begins and completes its frame while another waits
C20_FrameWhileBlocked ==
  /\ msgbox # <<>>
  /\ CallOk
  /\ viewbuf # <<>>

-----------------------------------------------------------------------------

\* C21: every byte of the view buffer that the filter loop fetches during
\* warm-up, and every byte of the buffer that a completed call leaves for
\* the renderer, was written by a read from the file or by a zero fill.
C21_BytesReadOrZeroed ==
  CallEnded =>
    /\ call.fetched_unwritten = {}
    /\ CallOk => call.visible_unwritten = {}

\* the part on the visible buffer alone
C21_VisibleBytesWritten == CallOk => call.visible_unwritten = {}

\* a warm-up range that passes the end of the recording: the filter loop has
\* fetched bytes of the buffer that are as malloc left them
C21_WarmupFetchesUnwritten ==
  /\ CallOk
  /\ call.fetched_unwritten # {}
  /\ \E f \in Files :
        /\ viewtime[f] > edfheaderlist[f].datarecords * edfheaderlist[f].long_data_record_duration
        /\ prefiltertime[f] > 0

-----------------------------------------------------------------------------

\* the number of samples of a signal with smp samples per record of dur ticks
\* whose time is before t (t >= 0): sample n is at n * dur / smp ticks
SamplesBefore(t, smp, dur) == (t * smp + dur - 1) \div dur

\* the same, counted in whole sample intervals (the proportional count of a
\* partial record, truncated)
SampleIntervalsBefore(t, smp, dur) == (t * smp) \div dur

\* C22 as stated: on a recording with prefilter time > 0,
\* samples_in_prefilterbuf is the number of samples of the composition in
\* [view_time - prefilter_time, view_time), the right edge counted
\* proportionally (either way of counting the sample at the left edge is
\* accepted); and it is 0 when the prefilter time is 0.
C22_SamplesInPrefilterRange ==
  (CallOk /\ call.hasprefilter) =>
    \A i \in DOMAIN signalcomp :
       LET c == signalcomp[i]
           f == c.filenum
           dur == edfheaderlist[f].long_data_record_duration
           smp == edfparam_0(c).smp_per_record
           right == SampleIntervalsBefore(viewtime[f], smp, dur)
       IN IF prefiltertime[f] > 0
          THEN c.samples_in_prefilterbuf
                  \in { right - SamplesBefore(viewtime[f] - prefiltertime[f], smp, dur),
                        right - SampleIntervalsBefore(viewtime[f] - prefiltertime[f], smp, dur) }
          ELSE c.samples_in_prefilterbuf = 0

\* C22 as the code has it: the samples are counted from the start of the
\* record that holds view_time - prefilter_time (the record the warm-up read
\* begins with) up to view_time, so the count is that of the stated range
\* plus the samples of that record that precede the range.
C22_SamplesFromRecordStart ==
  (CallOk /\ call.hasprefilter) =>
    \A i \in DOMAIN signalcomp :
       LET c == signalcomp[i]
           f == c.filenum
           dur == edfheaderlist[f].long_data_record_duration
           smp == edfparam_0(c).smp_per_record
           right == SampleIntervalsBefore(viewtime[f], smp, dur)
       IN IF prefiltertime[f] > 0
          THEN /\ c.samples_in_prefilterbuf = right - WarmupStartRecord(f) * smp
               /\ c.samples_in_prefilterbuf
                     >= right - SampleIntervalsBefore(viewtime[f] - prefiltertime[f], smp, dur)
               /\ c.samples_in_prefilterbuf
                     < right - SampleIntervalsBefore(viewtime[f] - prefiltertime[f], smp, dur) + smp
          ELSE c.samples_in_prefilterbuf = 0

\* a warm-up of 3.3333333 s before 4.55 s at 100 Hz: the range starts at
\* 1.2166667 s and holds 333 samples, 335 are counted, from 1.2 s
C22_Witness ==
  /\ CallOk
  /\ \E i \in DOMAIN signalcomp :
        /\ signalcomp[i].filenum = 1
        /\ viewtime[1] = 45500000
        /\ prefiltertime[1] = 33333333
        /\ signalcomp[i].samples_in_prefilterbuf = 335
        /\ SampleIntervalsBefore(45500000, 10, 1000000) - SamplesBefore(45500000 - 33333333, 10, 1000000) = 333

-----------------------------------------------------------------------------

\* the Z-ratio filter of composition c after the composition has run, from
\* its instances as they were created, over every sample of its recording
\* from sample 0 up to view time vt: blocks of dftblocksize samples (2 s)
\* counted from the start of the recording
ContinuousZratio(c, vt) ==
  LET h == hdr(c)
      n == (vt * edfparam_0(c).smp_per_record) \div h.long_data_record_duration
      size == ((vt \div h.long_data_record_duration) + 1) * h.recordsize
      buf == FillBuffer(size, <<ReadOp(0, size, c.filenum, h.hdrsize)>>, 0)
      c0 == [AsCreated(c) EXCEPT !.viewbufoffset = 0, !.prefilter_reset_sample = 0]
  IN PrefilterSamples(c0, 0, n, buf, 0).zratio_filter[1]

\* the view time of the recording of composition c lies inside the recording
ViewInside(c) ==
  /\ viewtime[c.filenum] >= 0
  /\ viewtime[c.filenum] < hdr(c).datarecords * hdr(c).long_data_record_duration

\* the saved Z-ratio state of composition c is the one of the continuous run
SavedZratioIsContinuous(c) ==
  \E z \in {ContinuousZratio(c, viewtime[c.filenum])} :
     /\ c.zratio_filter[1].smpls_in_inputbuf_bu = z.smpls_in_inputbuf
     /\ c.zratio_filter[1].zratio_value_bu = z.zratio_value

\* C23: after a completed call, for every composition with a Z-ratio filter
\* whose view time lies inside the recording, the saved Z-ratio state (samples
\* buffered in the current epoch, current ratio value) is the state of the
\* filter run continuously from sample 0 of the recording, whatever the calls
\* before.
C23_ZratioStateAsContinuous ==
  CallOk =>
    \A i \in DOMAIN signalcomp :
       (signalcomp[i].zratio_filter # <<>> /\ ViewInside(signalcomp[i])) =>
          SavedZratioIsContinuous(signalcomp[i])

\* the same for the compositions that are the first on their recording and
\* were warmed up in the call
C23_FirstOnFileWarmed ==
  CallOk =>
    \A i \in FirstOnFile(signalcomp) :
       (/\ signalcomp[i].zratio_filter # <<>>
        /\ ViewInside(signalcomp[i])
        /\ signalcomp[i].samples_in_prefilterbuf > 0) =>
          SavedZratioIsContinuous(signalcomp[i])

\* a Z-ratio composition alone on recording 1, warmed up for 4 s before
\* 4.55 s: 55 samples of the third epoch buffered, the ratio of the second
C23_WarmedState ==
  /\ CallOk
  /\ Len(signalcomp) = 1
  /\ signalcomp[1].zratio_filter # <<>>
  /\ viewtime[1] = 45500000
  /\ signalcomp[1].zratio_filter[1].smpls_in_inputbuf_bu = 55
  /\ signalcomp[1].zratio_filter[1].zratio_value_bu # 0

\* a Z-ratio composition alone on its recording, drawn from view time 0 after
\* a call elsewhere: the saved state is the one of the call before
C23_StaleAtStart ==
  /\ CallOk
  /\ Len(signalcomp) = 1
  /\ signalcomp[1].zratio_filter # <<>>
  /\ viewtime[1] = 0
  /\ signalcomp[1].zratio_filter[1].smpls_in_inputbuf_bu # 0

-----------------------------------------------------------------------------

\* the position of stage k in the sequence q of stages applied, 0 when absent
StagePos(q, k) == IF \E n \in DOMAIN q : q[n] = k THEN CHOOSE n \in DOMAIN q : q[n] = k ELSE 0

FilterStages == {"spike", "filter", "ravg", "fid", "fir", "plif_ecg", "plif_eeg", "ecg", "zratio"}

\* the stages of lines 395-507 in the order of the source text
StagesInSourceOrder ==
  <<"sum", "spike", "math_func_before", "filter", "ravg", "fid", "fir", "math_func_after",
    "plif_ecg", "plif_eeg", "ecg", "zratio">>

\* the stages that composition c has
StagesOf(c) ==
  {"sum"}
  \cup (IF c.spike_filter # <<>> THEN {"spike"} ELSE {})
  \cup (IF c.math_func_before # <<>> THEN {"math_func_before"} ELSE {})
  \cup (IF c.filter # <<>> THEN {"filter"} ELSE {})
  \cup (IF c.ravg_filter # <<>> THEN {"ravg"} ELSE {})
  \cup (IF c.fidfilter # <<>> THEN {"fid"} ELSE {})
  \cup (IF c.fir_filter # <<>> THEN {"fir"} ELSE {})
  \cup (IF c.math_func_after # <<>> THEN {"math_func_after"} ELSE {})
  \cup (IF c.plif_ecg_filter # <<>> THEN {"plif_ecg"} ELSE {})
  \cup (IF c.plif_eeg_filter # <<>> THEN {"plif_eeg"} ELSE {})
  \cup (IF c.ecg_filter # <<>> THEN {"ecg"} ELSE {})
  \cup (IF c.zratio_filter # <<>> THEN {"zratio"} ELSE {})

C24_WitnessBefore ==
  /\ CallOk
  /\ \E i \in DOMAIN signalcomp :
        /\ signalcomp[i].samples_in_prefilterbuf > 0
        /\ signalcomp[i].stages = <<"sum", "math_func_before", "zratio">>

-----------------------------------------------------------------------------

\* the positions of the steps of kind k in the steps of the call
StepsOf(k) == {n \in DOMAIN call.steps : call.steps[n].step = k}

\* C25: the filters of a composition take the warm-up samples in strictly
\* increasing order, its snapshot is taken after its last warm-up sample,
\* and every filter loop and every snapshot of the call is over before the
\* first read of the visible window and before drawCurve_stage_1.
C25_WarmupThenSnapshotThenVisible ==
  CallOk =>
    /\ \A i \in DOMAIN signalcomp :
          (HasStatefulFilter(signalcomp[i]) /\ signalcomp[i].samples_in_prefilterbuf > 0) =>
             /\ signalcomp[i].warm.ordered
             /\ signalcomp[i].warm.last = signalcomp[i].samples_in_prefilterbuf - 1
             /\ signalcomp[i].warm.saved_after = signalcomp[i].warm.last
             /\ \E m \in StepsOf("filter"), n \in StepsOf("snapshot") :
                   /\ call.steps[m].comp = i
                   /\ call.steps[n].comp = i
                   /\ m < n
    /\ \A m \in StepsOf("filter") \cup StepsOf("snapshot") :
       \A n \in StepsOf("visible_read") \cup StepsOf("drawCurve_stage_1") : m < n
    /\ \A m \in StepsOf("filter") : \A n \in StepsOf("snapshot") : m < n

\* a call that filtered more than one warm-up sample of a composition, took
\* its snapshot, read the visible window and drew
C25_Witness ==
  /\ CallOk
  /\ StepsOf("visible_read") # {}
  /\ StepsOf("drawCurve_stage_1") # {}
  /\ \E i \in DOMAIN signalcomp :
        /\ HasStatefulFilter(signalcomp[i])
        /\ signalcomp[i].samples_in_prefilterbuf > 1
        /\ signalcomp[i].warm.saved_after = signalcomp[i].samples_in_prefilterbuf - 1
        /\ \E m \in StepsOf("filter") : call.steps[m].comp = i

-----------------------------------------------------------------------------

\* C26: a 3-byte BDF sample (b0, b1, b2) decodes to b0 + 256*b1 + 65536*b2,
\* minus 2^24 when the high bit of b2 is set, a value of -8388608..8388607;
\* a 2-byte EDF sample decodes to its 16-bit little-endian two's-complement
\* value, of -32768..32767.
C26_DecodedValue ==
  dec.decoded =>
    /\ dec.bdf =>
          /\ dec.d_temp = dec.b[1] + 256 * dec.b[2] + 65536 * dec.b[3]
                          - (IF dec.b[3] >= 128 THEN 16777216 ELSE 0)
          /\ dec.d_temp \in -8388608..8388607
    /\ dec.edf =>
          /\ dec.d_temp = dec.b[1] + 256 * dec.b[2] - (IF dec.b[2] >= 128 THEN 65536 ELSE 0)
          /\ dec.d_temp \in -32768..32767

\* a BDF sample with the high bit of its third byte set, not in the first
\* record of the buffer
C26_Witness ==
  /\ dec.decoded
  /\ dec.bdf
  /\ dec.b = <<1, 0, 128>>
  /\ dec.d_temp = -8388607
  /\ dec.s >= 10

\* a negative EDF sample of the second constituent signal
C26_WitnessEdf ==
  /\ dec.decoded
  /\ dec.edf
  /\ dec.k = 2
  /\ dec.b = <<255, 255>>
  /\ dec.d_temp = -1

-----------------------------------------------------------------------------

\* the samples of composition c that the call marked for display, counted
\* from the first sample of the region
MarkedSamples(c) == c.sample_timeoffset + (c.sample_stop - c.sample_start)

\* C27: after a call that succeeded, for every composition
\* sample_timeoffset + (sample_stop - sample_start) is at most
\* records_in_viewbuf times the samples per record, whether the view time is
\* before the start, inside or past the end of the recording.
C27_MarkedSamplesInRegion ==
  CallOk =>
    \A i \in DOMAIN signalcomp :
       /\ signalcomp[i].sample_stop >= signalcomp[i].sample_start
       /\ MarkedSamples(signalcomp[i])
             <= signalcomp[i].records_in_viewbuf * edfparam_0(signalcomp[i]).smp_per_record

\* a page of which the recording holds only a part, the view time inside a
\* record
C27_Witness ==
  /\ CallOk
  /\ \E i \in DOMAIN signalcomp :
        /\ viewtime[signalcomp[i].filenum] > 0
        /\ signalcomp[i].sample_timeoffset > 0
        /\ signalcomp[i].sample_stop > signalcomp[i].sample_start
        /\ signalcomp[i].sample_stop - signalcomp[i].sample_start < signalcomp[i].samples_on_screen

\* a view time before the start of the recording, by more than a page
C27_WitnessBefore ==
  /\ CallOk
  /\ \E i \in DOMAIN signalcomp :
        /\ viewtime[signalcomp[i].filenum] < 0
        /\ signalcomp[i].sample_start > signalcomp[i].samples_on_screen
        /\ signalcomp[i].sample_stop > signalcomp[i].sample_start

\* a view time past the end of the recording, and a whole page inside it
C27_WitnessBeyond ==
  /\ CallOk
  /\ \E i, j \in DOMAIN signalcomp :
        /\ viewtime[signalcomp[i].filenum]
              >= hdr(signalcomp[i]).datarecords * hdr(signalcomp[i]).long_data_record_duration
        /\ signalcomp[i].sample_stop = signalcomp[i].sample_start
        /\ signalcomp[j].sample_timeoffset > 0
        /\ signalcomp[j].sample_stop = signalcomp[j].samples_on_screen
        /\ signalcomp[j].samples_on_screen > 0

-----------------------------------------------------------------------------

\* the address of constituent signal k at warm-up sample s, from the start of
\* the region of composition c
AddressInRegion(c, k, s) == SampleAddress([c EXCEPT !.viewbufoffset = 0], k, s)

\* the bytes of the region that the warm-up layout gave composition i
WarmupRegionSize(i) == call.prelayout[i].records_in_viewbuf * hdr(signalcomp[i]).recordsize

\* C28: in the warm-up of a composition that has a filter with a state, the
\* bytes of every constituent signal k at every sample s below
\* samples_in_prefilterbuf lie inside the records_in_viewbuf * recordsize
\* bytes of the composition's region, whatever the samples per record of the
\* constituent signals.
C28_WarmupAddressesInRegion ==
  (CallOk /\ call.hasprefilter) =>
    \A i \in DOMAIN signalcomp :
       HasStatefulFilter(signalcomp[i]) =>
          \A k \in DOMAIN signalcomp[i].edfsignal :
          \A s \in 0..(signalcomp[i].samples_in_prefilterbuf - 1) :
             /\ AddressInRegion(signalcomp[i], k, s) >= 0
             /\ AddressInRegion(signalcomp[i], k, s) + BytesPerSample(signalcomp[i]) <= WarmupRegionSize(i)

\* the same for the compositions whose constituent signals have no fewer
\* samples per record than the first
C28_SameRateAddressesInRegion ==
  (CallOk /\ call.hasprefilter) =>
    \A i \in DOMAIN signalcomp :
       (/\ HasStatefulFilter(signalcomp[i])
        /\ \A k \in DOMAIN signalcomp[i].edfsignal :
              hdr(signalcomp[i]).edfparam[signalcomp[i].edfsignal[k]].smp_per_record
                 >= edfparam_0(signalcomp[i]).smp_per_record) =>
          \A k \in DOMAIN signalcomp[i].edfsignal :
          \A s \in 0..(signalcomp[i].samples_in_prefilterbuf - 1) :
             /\ AddressInRegion(signalcomp[i], k, s) >= 0
             /\ AddressInRegion(signalcomp[i], k, s) + BytesPerSample(signalcomp[i]) <= WarmupRegionSize(i)

\* a warm-up that fetched a sample of the slower signal past the end of the
\* whole buffer
C28_FetchedOutside ==
  /\ CallOk
  /\ call.fetched_outside # {}
  /\ \E i \in DOMAIN signalcomp :
        /\ Len(signalcomp[i].edfsignal) = 2
        /\ signalcomp[i].samples_in_prefilterbuf > 0

-----------------------------------------------------------------------------

\* C29: after any sequence of run, reset, save and restore calls on a filter
\* that was created, 0 <= smpls_in_inputbuf < dftblocksize, and a call of
\* run_zratio_filter that neither fills the block nor follows a reset or a
\* restore returns what the call before it returned.
C29_CounterInBlockAndValueHeld ==
  /\ zf.smpls_in_inputbuf \in 0..(zf.dftblocksize - 1)
  /\ zf.smpls_in_inputbuf_bu \in 0..(zf.dftblocksize - 1)
  /\ (zaux.last = "run" /\ zaux.prev # <<>> /\ ~zaux.completed /\ ~zaux.between) =>
        zaux.ret = zaux.prev

\* a call that did not fill the block returned the ratio of the block that
\* the call before it filled, after a save and a restore earlier on
C29_Witness ==
  /\ zaux.last = "run"
  /\ zaux.pos = zf.dftblocksize + 1
  /\ zf.smpls_in_inputbuf = 1
  /\ ~zaux.completed
  /\ ~zaux.between
  /\ zaux.ops >= 2
  /\ zaux.ret = zaux.prev
  /\ zaux.ret # <<0>>

\* a call that filled the block returned another value than the call before
C29_WitnessBlock ==
  /\ zaux.last = "run"
  /\ zaux.completed
  /\ zf.smpls_in_inputbuf = 0
  /\ zaux.prev # <<>>
  /\ zaux.ret # zaux.prev

\* a call after a restore returned another value than the call before
C29_WitnessRestore ==
  /\ zaux.last = "run"
  /\ ~zaux.completed
  /\ zaux.between
  /\ zaux.prev # <<>>
  /\ zaux.ret # zaux.prev

-----------------------------------------------------------------------------

\* C30: create_math_func returns no instance for a function code outside
\* 0 .. MATH_MAX_FUNCS-1 and for a peak hold of fewer than 1 sample; for a
\* peak hold, after every run_math_func call the counter is in
\* 0 .. pk_hold_smpls_set-1, the value returned is not below the argument,
\* and at most pk_hold_smpls_set-1 calls in a row return a held value
\* instead of their argument.
C30_CreateAndPeakHold ==
  /\ (mf.created /\ mf.calls = 0 /\ mf.func_f \notin 0..(MATH_MAX_FUNCS - 1)) => mf.st = <<>>
  /\ (mf.created /\ mf.calls = 0 /\ mf.func_f = MATH_FUNC_PK_HOLD /\ mf.pk_smpls < 1) => mf.st = <<>>
  /\ (mf.st # <<>> /\ mf.st[1].func = MATH_FUNC_PK_HOLD) =>
        /\ mf.st[1].pk_hold_smpls_set = mf.pk_smpls
        /\ mf.st[1].pk_hold_smpl_cntr \in 0..(mf.st[1].pk_hold_smpls_set - 1)
        /\ mf.calls > 0 => mf.ret >= mf.val
        /\ mf.held <= mf.st[1].pk_hold_smpls_set - 1

\* a peak hold of 3 samples returned its held value on two calls in a row
C30_Witness ==
  /\ mf.st # <<>>
  /\ mf.st[1].func = MATH_FUNC_PK_HOLD
  /\ mf.st[1].pk_hold_smpls_set = 3
  /\ mf.held = 2
  /\ mf.st[1].pk_hold_smpl_cntr = 2
  /\ mf.ret > mf.val

\* the held value gave way to a smaller argument
C30_WitnessExpired ==
  /\ mf.st # <<>>
  /\ mf.st[1].func = MATH_FUNC_PK_HOLD
  /\ mf.calls >= 4
  /\ mf.held = 0
  /\ mf.ret = -3
  /\ mf.st[1].pk_hold_val = -3

\* create_math_func refused a peak hold of 0 samples
C30_WitnessRefused ==
  /\ mf.created
  /\ mf.func_f = MATH_FUNC_PK_HOLD
  /\ mf.pk_smpls = 0
  /\ mf.st = <<>>

====
